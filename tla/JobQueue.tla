----------------------------- MODULE JobQueue -----------------------------
(***************************************************************************)
(* The durable job queue of internal/storage/postgres/jobs.go together     *)
(* with the runtime that claims from it and settles each claim             *)
(* (internal/worker/runtime.go).                                           *)
(*                                                                         *)
(* A statement or transaction of PostgreSQL is one step.  Time is          *)
(* abstract: a lease is live until Expire says that lease_until has        *)
(* passed, and a delayed job becomes due at some later step.               *)
(*                                                                         *)
(* Every misfortune of the environment (a crash, an interrupt, a lost      *)
(* statement, a lease that lapses under a living handler, a deadlock       *)
(* abort, a missing original, a busy return, a changed format, an          *)
(* operator's recovery or deletion) spends one unit of MaxFaults, the one  *)
(* bound of the model.                                                     *)
(***************************************************************************)
EXTENDS Naturals

CONSTANTS Docs,         \* documents of the workspace
          Lanes,        \* worker lanes of all processes
          Processes,    \* ingestion processes, of which one should run
          ProcOf,       \* the process each lane belongs to
          NoProc,       \* nobody holds the maintenance lock
          MaxAttempts,  \* charged claims in one retry cycle (3 in the code)
          MaxFaults     \* bound on misfortunes

ASSUME QueueAssumption ==
    /\ ProcOf \in [Lanes -> Processes]
    /\ NoProc \notin Processes
    /\ MaxAttempts \in Nat \ {0}
    /\ MaxFaults \in Nat

VARIABLES job,      \* ingestion_jobs
          doc,      \* documents.processing_status
          lane,     \* what each lane holds of the job it claimed
          proc,     \* lifecycle of each process
          maint,    \* holder of the maintenance lock
          orphans,  \* claims whose advisory lock a dead process's backend holds
          faults,   \* misfortunes so far
          spent     \* history: handler runs of this cycle not refunded

vars == <<job, doc, lane, proc, maint, orphans, faults, spent>>

-----------------------------------------------------------------------------
Stages == {"extract", "embed"}
Jobs == Docs \X Stages
JobsOf(d) == {<<d, s>> : s \in Stages}

\* NONE: the table has no row for this document and stage.
JobStates == {"NONE", "READY", "RUNNING", "COMPLETED", "FAILED",
              "WAITING_SOURCE"}
OpenStates == {"READY", "RUNNING", "WAITING_SOURCE"}
\* ABSENT: the workspace has no document with this content.
Statuses == {"ABSENT", "PENDING", "PROCESSING", "COMPLETED", "SKIPPED",
             "FAILED"}
Unfinished == {"PENDING", "PROCESSING"}
\* Where admission sends content: the job of its first stage (plain text is
\* embedded at once), or nowhere.
Routes == Stages \union {"declined"}

\* A row inserted after a deletion has a job_id of its own.  Its generations
\* are numbered on from the deleted row's, which makes (job_id, generation)
\* one number; born is the number the current job_id began with.
JobRow == [state : JobStates, born : Nat, gen : Nat, attempts : 0..MaxAttempts,
           live : BOOLEAN, due : BOOLEAN]

NoRow == [state |-> "NONE", born |-> 0, gen |-> 0, attempts |-> 0,
          live |-> FALSE, due |-> FALSE]
\* attempts 0 and available at once (the schema's defaults).
NewRow(r) == [state |-> "READY", born |-> r.gen + 1, gen |-> r.gen + 1,
              attempts |-> 0, live |-> FALSE, due |-> TRUE]
Deleted(r) == [NoRow EXCEPT !.born = r.gen, !.gen = r.gen]

NoJob == <<>>
\* claimed: handed to the lane; preparing: model work outside any transaction;
\* running: inside the stage transaction, holding the job's advisory lock;
\* settling: the handler has returned err and its verdict is due.
Phases == {"idle", "claimed", "preparing", "running", "settling"}
Errors == {"none", "declined", "transient", "terminal", "source", "deadlock",
           "busy"}
Lane == [phase : Phases, job : Jobs \union {NoJob}, gen : Nat,
         charged : BOOLEAN, last : BOOLEAN, ran : BOOLEAN, err : Errors]
Idle == [phase |-> "idle", job |-> NoJob, gen |-> 0, charged |-> FALSE,
         last |-> FALSE, ran |-> FALSE, err |-> "none"]

Modes == {"down", "run", "stopping", "cancelled"}

-----------------------------------------------------------------------------
(* The predicates the statements carry.                                    *)

\* owned: this exact claim, still RUNNING, under an unexpired lease.
Owned(w) ==
    LET j == lane[w].job IN
    /\ job[j].state = "RUNNING"
    /\ job[j].gen = lane[w].gen
    /\ job[j].live

\* pg_try_advisory_xact_lock would answer false: a handler of this job_id is
\* inside its transaction, or the backend of a dead one has not ended yet.
Locked(j) ==
    \/ \E o \in orphans : o[1] = j /\ o[2] > job[j].born
    \/ \E w \in Lanes : /\ lane[w].phase = "running"
                         /\ lane[w].job = j
                         /\ lane[w].gen > job[j].born

Spend == faults < MaxFaults /\ faults' = faults + 1

Cancelled(w) == proc[ProcOf[w]] = "cancelled"

-----------------------------------------------------------------------------
Init ==
    /\ job = [j \in Jobs |-> NoRow]
    /\ doc = [d \in Docs |-> "ABSENT"]
    /\ lane = [w \in Lanes |-> Idle]
    /\ proc = [p \in Processes |-> "down"]
    /\ maint = NoProc
    /\ orphans = {}
    /\ faults = 0
    /\ spent = [j \in Jobs |-> 0]

-----------------------------------------------------------------------------
(* Processes.                                                              *)

\* An ingestion run starts once it has the maintenance lock.  It does nothing
\* about work an earlier process left RUNNING.
Start(p) ==
    /\ proc[p] = "down"
    /\ maint = NoProc
    /\ proc' = [proc EXCEPT ![p] = "run"]
    /\ maint' = p
    /\ UNCHANGED <<job, doc, lane, orphans, faults, spent>>

\* The session that holds the lock is lost while the process lives on.
LoseMaintenance(p) ==
    /\ maint = p
    /\ Spend
    /\ maint' = NoProc
    /\ UNCHANGED <<job, doc, lane, proc, orphans, spent>>

\* The first interrupt stops claiming; the second cancels the handlers.
Interrupt(p) ==
    /\ proc[p] \in {"run", "stopping"}
    /\ Spend
    /\ proc' = [proc EXCEPT ![p] = IF @ = "run" THEN "stopping"
                                                ELSE "cancelled"]
    /\ UNCHANGED <<job, doc, lane, maint, orphans, spent>>

\* A run joins its lanes and releases the lock: after an interrupt, or when
\* the queue has drained.
Exit(p) ==
    /\ \/ proc[p] \in {"stopping", "cancelled"}
       \/ /\ proc[p] = "run"
          /\ \A j \in Jobs : job[j].state \notin {"READY", "RUNNING"}
    /\ \A w \in Lanes : ProcOf[w] = p => lane[w].phase = "idle"
    /\ proc' = [proc EXCEPT ![p] = "down"]
    /\ maint' = IF maint = p THEN NoProc ELSE maint
    /\ UNCHANGED <<job, doc, lane, orphans, faults, spent>>

\* The process dies.  Its sessions end, but the backend of an open stage
\* transaction keeps the advisory lock until PostgreSQL notices.
Crash(p) ==
    /\ proc[p] # "down"
    /\ Spend
    /\ proc' = [proc EXCEPT ![p] = "down"]
    /\ maint' = IF maint = p THEN NoProc ELSE maint
    /\ orphans' = orphans \union
          {<<lane[w].job, lane[w].gen>> :
             w \in {v \in Lanes : ProcOf[v] = p /\ lane[v].phase = "running"}}
    /\ lane' = [w \in Lanes |-> IF ProcOf[w] = p THEN Idle ELSE lane[w]]
    /\ UNCHANGED <<job, doc, spent>>

BackendEnds(o) ==
    /\ orphans' = orphans \ {o}
    /\ UNCHANGED <<job, doc, lane, proc, maint, faults, spent>>

-----------------------------------------------------------------------------
(* Admission and the passage of time.                                      *)

\* What one transaction may admit: any of the contents the workspace does not
\* hold yet, each down its route.
Admissions ==
    UNION {[K -> Routes] : K \in SUBSET {d \in Docs : doc[d] = "ABSENT"}}

\* CreateStub and Publish commit together: the stub with its job, or SKIPPED
\* with none.
WithJobs(rows, f) ==
    [j \in Jobs |-> IF j[1] \in DOMAIN f /\ f[j[1]] = j[2]
                    THEN NewRow(rows[j]) ELSE rows[j]]
WithStubs(docs, f) ==
    [d \in Docs |-> IF d \in DOMAIN f
                    THEN IF f[d] = "declined" THEN "SKIPPED" ELSE "PENDING"
                    ELSE docs[d]]

\* The scan admits one staged file.
Admit(d, r) ==
    /\ \E p \in Processes : proc[p] = "run"
    /\ doc[d] = "ABSENT"
    /\ doc' = WithStubs(doc, [x \in {d} |-> r])
    /\ job' = WithJobs(job, [x \in {d} |-> r])
    /\ UNCHANGED <<lane, proc, maint, orphans, faults, spent>>

\* The scan corrects a document whose recorded route the current formats
\* disagree with (Reroute, Refuse): its jobs go and, unless it is refused, one
\* for the new route comes, in one transaction.  A document with a RUNNING job
\* is left alone.  Text moves to the handler that now reads it; content
\* skipped at routing moves anywhere.
Reset(d, r) ==
    /\ \E p \in Processes : proc[p] = "run"
    /\ Spend
    /\ doc[d] # "ABSENT"
    /\ \A j \in JobsOf(d) : job[j].state # "RUNNING"
    /\ \/ r = "declined"
       \/ r = "extract" /\ job[<<d, "extract">>].state = "NONE"
       \/ /\ doc[d] = "SKIPPED"
          /\ \A j \in JobsOf(d) : job[j].state = "NONE"
    /\ doc' = WithStubs(doc, [x \in {d} |-> r])
    /\ job' = WithJobs([j \in Jobs |-> IF j[1] = d THEN Deleted(job[j])
                                                   ELSE job[j]],
                       [x \in {d} |-> r])
    /\ spent' = [j \in Jobs |-> IF j[1] = d THEN 0 ELSE spent[j]]
    /\ UNCHANGED <<lane, proc, maint, orphans>>

\* available_at passes.
BecomeDue(j) ==
    /\ job[j].state = "READY"
    /\ ~job[j].due
    /\ job' = [job EXCEPT ![j].due = TRUE]
    /\ UNCHANGED <<doc, lane, proc, maint, orphans, faults, spent>>

\* A living lane renews the lease of the claim it holds.
Held(j) == \E w \in Lanes : /\ lane[w].phase # "idle"
                            /\ lane[w].job = j
                            /\ lane[w].gen = job[j].gen

\* lease_until passes.  Nobody renews a claim no lane holds; a held one
\* lapses only when its renewals fail or its hour is over.
Expire(j) ==
    /\ job[j].state = "RUNNING"
    /\ job[j].live
    /\ ~Held(j)
    /\ job' = [job EXCEPT ![j].live = FALSE]
    /\ UNCHANGED <<doc, lane, proc, maint, orphans, faults, spent>>

ExpireHeld(j) ==
    /\ job[j].state = "RUNNING"
    /\ job[j].live
    /\ Held(j)
    /\ Spend
    /\ job' = [job EXCEPT ![j].live = FALSE]
    /\ UNCHANGED <<doc, lane, proc, maint, orphans, spent>>

-----------------------------------------------------------------------------
(* Claiming.                                                               *)

\* Mutant: expired work is never looked for.
ClaimableReadyOnly(j) == job[j].state = "READY" /\ job[j].due

Claimable(j) ==
    \/ job[j].state = "READY" /\ job[j].due
    \/ job[j].state = "RUNNING" /\ ~job[j].live

\* Mutant: the attempts are not capped.
ClaimedRowUncapped(r) ==
    [r EXCEPT !.state = "RUNNING", !.gen = @ + 1, !.live = TRUE,
              !.attempts = @ + 1]

\* The claim statement: RUNNING under a new generation and lease, one more
\* attempt charged up to the cap.
ClaimedRow(r) ==
    [r EXCEPT !.state = "RUNNING", !.gen = @ + 1, !.live = TRUE,
              !.attempts = IF @ < MaxAttempts THEN @ + 1 ELSE @]

\* Mutant: a claim that keeps the generation of the one before it.
ClaimSameGeneration(w, j) ==
    /\ proc[ProcOf[w]] = "run"
    /\ lane[w].phase = "idle"
    /\ Claimable(j)
    /\ job' = [job EXCEPT ![j] = [ClaimedRow(@) EXCEPT !.gen = job[j].gen]]
    /\ lane' = [lane EXCEPT ![w] =
          [phase |-> "claimed", job |-> j, gen |-> job[j].gen,
           charged |-> job[j].attempts < MaxAttempts,
           last |-> job[j].attempts + 1 >= MaxAttempts,
           ran |-> FALSE, err |-> "none"]]
    /\ UNCHANGED <<doc, proc, maint, orphans, faults, spent>>

\* A pool hands a claimed job to a lane it has reserved for it.  Charged is
\* false when the budget was spent before this claim.
Claim(w, j) ==
    /\ proc[ProcOf[w]] = "run"
    /\ lane[w].phase = "idle"
    /\ Claimable(j)
    /\ job' = [job EXCEPT ![j] = ClaimedRow(@)]
    /\ lane' = [lane EXCEPT ![w] =
          [phase |-> "claimed", job |-> j, gen |-> job[j].gen + 1,
           charged |-> job[j].attempts < MaxAttempts,
           last |-> job[j].attempts + 1 >= MaxAttempts,
           ran |-> FALSE, err |-> "none"]]
    /\ UNCHANGED <<doc, proc, maint, orphans, faults, spent>>

\* The claim commits and its answer is lost: RUNNING with nobody holding it.
ClaimLost(j) ==
    /\ \E p \in Processes : proc[p] = "run"
    /\ Claimable(j)
    /\ Spend
    /\ job' = [job EXCEPT ![j] = ClaimedRow(@)]
    /\ UNCHANGED <<doc, lane, proc, maint, orphans, spent>>

-----------------------------------------------------------------------------
(* Verdicts.  Each is one statement guarded by owned; a claim that no      *)
(* longer owns its job records nothing.                                    *)

Drop(w) == lane' = [lane EXCEPT ![w] = Idle]
MoveTo(w, phase, err) ==
    lane' = [lane EXCEPT ![w].phase = phase, ![w].err = err]

\* Mutant: a refund also for a claim that charged nothing.
RefundedAlways(w) ==
    IF job[lane[w].job].attempts > 0 THEN job[lane[w].job].attempts - 1 ELSE 0

\* attempts = GREATEST(attempts - refund, 0), the refund being 1 for a claim
\* that charged one.
Refunded(w) ==
    LET attempts == job[lane[w].job].attempts IN
    IF lane[w].charged /\ attempts > 0 THEN attempts - 1 ELSE attempts

UnspendRun(w) ==
    spent' = IF lane[w].ran
             THEN [spent EXCEPT ![lane[w].job] = @ - 1] ELSE spent

\* Lost ownership: no verdict; expiry or the successor resolves the job.
LostLease(w) ==
    /\ ~Owned(w)
    /\ Drop(w)
    /\ UNCHANGED <<job, doc, proc, maint, orphans, faults, spent>>

\* One guarded UPDATE out of RUNNING.
Transition(w, state, due, attempts) ==
    LET j == lane[w].job IN
    /\ Owned(w)
    /\ job' = [job EXCEPT ![j].state = state, ![j].live = FALSE,
                          ![j].due = due, ![j].attempts = attempts]
    /\ Drop(w)
    /\ UNCHANGED <<proc, maint, orphans>>

\* Release: READY again after a delay, the charged attempt refunded.
ReleaseJob(w, due) ==
    /\ Transition(w, "READY", due, Refunded(w))
    /\ UnspendRun(w)
    /\ UNCHANGED doc

\* Wait: parked until a scan has refreshed locations, the attempt refunded.
WaitJob(w) ==
    /\ Transition(w, "WAITING_SOURCE", FALSE, Refunded(w))
    /\ UnspendRun(w)
    /\ UNCHANGED doc

\* Retry: READY after the backoff, the attempt kept.
RetryJob(w) ==
    /\ Transition(w, "READY", FALSE, job[lane[w].job].attempts)
    /\ UNCHANGED <<doc, faults, spent>>

\* Mutants: a failure recorded past the lock, and one of the job alone.
FailJobUnlocked(w) ==
    /\ Transition(w, "FAILED", FALSE, job[lane[w].job].attempts)
    /\ doc' = [doc EXCEPT ![lane[w].job[1]] = "FAILED"]
    /\ UNCHANGED <<faults, spent>>
FailJobOnly(w) ==
    /\ ~Locked(lane[w].job)
    /\ Transition(w, "FAILED", FALSE, job[lane[w].job].attempts)
    /\ UNCHANGED <<doc, faults, spent>>

\* Fail: job and document FAILED in one transaction, behind the job's
\* advisory lock.
FailJob(w) ==
    /\ ~Locked(lane[w].job)
    /\ Transition(w, "FAILED", FALSE, job[lane[w].job].attempts)
    /\ doc' = [doc EXCEPT ![lane[w].job[1]] = "FAILED"]
    /\ UNCHANGED <<faults, spent>>

\* An older handler still holds the lock: back off, like any busy return.
FailBusy(w) ==
    /\ Locked(lane[w].job)
    /\ Spend
    /\ ReleaseJob(w, FALSE)

-----------------------------------------------------------------------------
(* A lane at work.                                                         *)

\* Claiming was stopped before the job was handed over: give it back.
GiveBack(w) ==
    /\ lane[w].phase = "claimed"
    /\ proc[ProcOf[w]] # "run"
    /\ ReleaseJob(w, TRUE)
    /\ UNCHANGED faults

\* A claim that charged nothing authorizes failure bookkeeping only.
FailExhausted(w) ==
    /\ lane[w].phase = "claimed"
    /\ ~lane[w].charged
    /\ FailJob(w) \/ FailBusy(w)

\* Prepare: the embedding stage reads, chunks and embeds before its
\* transaction opens.  A decline is carried into the transaction.
Prepare(w) ==
    /\ lane[w].phase = "claimed"
    /\ lane[w].charged
    /\ lane[w].job[2] = "embed"
    /\ MoveTo(w, "preparing", "none")
    /\ UNCHANGED <<job, doc, proc, maint, orphans, faults, spent>>

\* A lane about to open its stage transaction.
AtBegin(w) ==
    \/ lane[w].phase = "preparing"
    \/ /\ lane[w].phase = "claimed"
       /\ lane[w].charged
       /\ lane[w].job[2] = "extract"

\* Preparing failed or panicked, or the transaction could not be opened, as
\* it cannot once the handlers are cancelled.
NotBegun(w) ==
    /\ AtBegin(w)
    /\ \E e \in {"transient", "terminal"} :
          /\ e = "terminal" => lane[w].phase = "preparing"
          /\ MoveTo(w, "settling", e)
    /\ UNCHANGED <<job, doc, proc, maint, orphans, faults, spent>>

\* Run opens the transaction, takes the advisory lock without waiting and
\* reads that the claim still owns its job.
Begin(w) ==
    LET j == lane[w].job IN
    /\ AtBegin(w)
    /\ ~Cancelled(w)
    /\ ~Locked(j)
    /\ Owned(w)
    /\ lane' = [lane EXCEPT ![w].phase = "running", ![w].ran = TRUE]
    /\ spent' = [spent EXCEPT ![j] = @ + 1]
    /\ UNCHANGED <<job, doc, proc, maint, orphans, faults>>

BeginBusy(w) ==
    /\ AtBegin(w)
    /\ ~Cancelled(w)
    /\ Locked(lane[w].job)
    /\ Spend
    /\ MoveTo(w, "settling", "busy")
    /\ UNCHANGED <<job, doc, proc, maint, orphans, spent>>

BeginLost(w) ==
    /\ AtBegin(w)
    /\ ~Cancelled(w)
    /\ ~Locked(lane[w].job)
    /\ LostLease(w)

\* The handler returns an error: its transaction rolls back and the lock
\* ends with it.
HandlerFails(w) ==
    /\ lane[w].phase = "running"
    /\ \E e \in {"transient", "terminal", "source", "deadlock"} :
          /\ e = "source" => lane[w].job[2] = "extract"
          /\ MoveTo(w, "settling", e)
          /\ IF e \in {"source", "deadlock"} THEN Spend ELSE UNCHANGED faults
    /\ UNCHANGED <<job, doc, proc, maint, orphans, spent>>

\* The completion fence holds and everything commits together: the job is
\* COMPLETED and
\*   handoff  extraction's text, PROCESSING and the embed job, or
\*   end      COMPLETED (passages, or a container with no text of its own) or
\*            SKIPPED (declined).
\* An extracted container's new members f are admitted by the same commit.
CompletedRow(r) == [r EXCEPT !.state = "COMPLETED", !.live = FALSE]

\* Mutant: the text is committed without the embed job.
CommitNoHandOff(j, f) ==
    /\ j[2] = "extract"
    /\ job' = WithJobs([job EXCEPT ![j] = CompletedRow(@)], f)
    /\ doc' = WithStubs([doc EXCEPT ![j[1]] = "PROCESSING"], f)

CommitHandOff(j, f) ==
    LET e == <<j[1], "embed">> IN
    /\ j[2] = "extract"
    /\ job' = WithJobs([job EXCEPT
                          ![j] = CompletedRow(@),
                          ![e] = IF @.state = "NONE" THEN NewRow(@) ELSE @], f)
    /\ doc' = WithStubs([doc EXCEPT ![j[1]] = "PROCESSING"], f)

CommitEnd(j, f) ==
    /\ j[2] = "embed" => DOMAIN f = {}
    /\ job' = WithJobs([job EXCEPT ![j] = CompletedRow(@)], f)
    /\ \E v \in {"COMPLETED", "SKIPPED"} :
          /\ v = "SKIPPED" => DOMAIN f = {}
          /\ doc' = WithStubs([doc EXCEPT ![j[1]] = v], f)

CommitEffects(w) ==
    /\ lane[w].phase = "running"
    /\ Owned(w)
    /\ \E f \in Admissions : \/ CommitHandOff(lane[w].job, f)
                             \/ CommitEnd(lane[w].job, f)

Commit(w) ==
    /\ CommitEffects(w)
    /\ Drop(w)
    /\ UNCHANGED <<proc, maint, orphans, faults, spent>>

\* COMMIT's answer is lost, and State reads the job before the commit lands:
\* the lane takes a job that is COMPLETED for one that failed.
CommitLate(w) ==
    /\ CommitEffects(w)
    /\ Spend
    /\ MoveTo(w, "settling", "transient")
    /\ UNCHANGED <<proc, maint, orphans, spent>>

\* COMMIT's answer is lost and nothing was committed: State says the job is
\* still ours and the failure is an ordinary transient one, or State cannot
\* be read and the job is left to expire.
CommitUncertain(w) ==
    /\ lane[w].phase = "running"
    /\ Spend
    /\ \/ Owned(w) /\ MoveTo(w, "settling", "transient")
       \/ Drop(w)
    /\ UNCHANGED <<job, doc, proc, maint, orphans, spent>>

\* The heartbeat finds the lease lost and cancels the handler, or the
\* completion fence matches no row: everything rolls back and no verdict is
\* recorded.
LeaseLost(w) ==
    /\ lane[w].phase \in {"preparing", "running"}
    /\ LostLease(w)

\* No renewal could be confirmed inside the safety margin: the handler is
\* cancelled and its claim left to expire, the attempt still charged.
LeaseUncertain(w) ==
    /\ lane[w].phase \in {"preparing", "running"}
    /\ Spend
    /\ Drop(w)
    /\ UNCHANGED <<job, doc, proc, maint, orphans, spent>>

-----------------------------------------------------------------------------
(* settle: at most one fenced verdict for what the handler returned.       *)

Settling(w) == lane[w].phase = "settling"

SettleBusy(w) ==
    /\ Settling(w)
    /\ lane[w].err \in {"busy", "deadlock"}
    /\ ReleaseJob(w, FALSE)
    /\ UNCHANGED faults

SettleSource(w) ==
    /\ Settling(w)
    /\ lane[w].err = "source"
    /\ WaitJob(w)
    /\ UNCHANGED faults

\* Cancellation is not a verdict about the document.
SettleCancelled(w) ==
    /\ Settling(w)
    /\ lane[w].err \in {"transient", "terminal"}
    /\ Cancelled(w)
    /\ ReleaseJob(w, TRUE)
    /\ UNCHANGED faults

SettleFail(w) ==
    /\ Settling(w)
    /\ ~Cancelled(w)
    /\ \/ lane[w].err = "terminal"
       \/ lane[w].err = "transient" /\ lane[w].last
    /\ FailJob(w) \/ FailBusy(w)

SettleRetry(w) ==
    /\ Settling(w)
    /\ ~Cancelled(w)
    /\ lane[w].err = "transient"
    /\ ~lane[w].last
    /\ RetryJob(w)

\* A verdict that matches no row, or a document that is gone.
SettleLost(w) ==
    /\ \/ Settling(w)
       \/ /\ lane[w].phase = "claimed"
          /\ \/ proc[ProcOf[w]] # "run"
             \/ ~lane[w].charged
    /\ LostLease(w)

\* The statement fails: it is logged and never followed by another.
VerdictLost(w) ==
    /\ \/ Settling(w)
       \/ /\ lane[w].phase = "claimed"
          /\ proc[ProcOf[w]] # "run" \/ ~lane[w].charged
    /\ Spend
    /\ Drop(w)
    /\ UNCHANGED <<job, doc, proc, maint, orphans, spent>>

-----------------------------------------------------------------------------
(* Work that no lane does.                                                 *)

\* After a scan: every source wait is READY again under a new generation,
\* charged attempts kept.
ResumeSources ==
    /\ \E p \in Processes : proc[p] = "run"
    /\ \E j \in Jobs : job[j].state = "WAITING_SOURCE"
    /\ job' = [j \in Jobs |->
          IF job[j].state = "WAITING_SOURCE"
          THEN [job[j] EXCEPT !.state = "READY", !.gen = @ + 1,
                              !.due = TRUE, !.live = FALSE]
          ELSE job[j]]
    /\ UNCHANGED <<doc, lane, proc, maint, orphans, faults, spent>>

Resettable(j) ==
    \/ job[j].state = "FAILED"
    \/ job[j].state = "RUNNING" /\ ~job[j].live

\* ResetToPENDING, applied under the maintenance lock with the plan still
\* current: refused while a lease is live or a handler holds a job's lock.
Recover(d) ==
    LET open == {j \in JobsOf(d) :
                   job[j].state \in OpenStates \union {"FAILED"}}
        eligible == {j \in open : Resettable(j)} IN
    /\ maint = NoProc
    /\ Spend
    /\ \A j \in open : ~Locked(j)
    /\ \A j \in open : ~(job[j].state = "RUNNING" /\ job[j].live)
    /\ open = {} \/ eligible # {}
    /\ doc[d] \in Unfinished \union {"FAILED"}
    /\ doc' = [doc EXCEPT ![d] = "PENDING"]
    /\ job' = [j \in Jobs |->
          IF j \in eligible
          THEN [job[j] EXCEPT !.state = "READY", !.gen = @ + 1,
                              !.attempts = 0, !.due = TRUE, !.live = FALSE]
          ELSE job[j]]
    /\ spent' = [j \in Jobs |-> IF j \in eligible THEN 0 ELSE spent[j]]
    /\ UNCHANGED <<lane, proc, maint, orphans>>

\* A sweep, a forget or a wipe deletes the document; its jobs go with it.
Forget(d) ==
    /\ maint = NoProc
    /\ Spend
    /\ doc[d] # "ABSENT"
    /\ doc' = [doc EXCEPT ![d] = "ABSENT"]
    /\ job' = [j \in Jobs |-> IF j[1] = d THEN Deleted(job[j]) ELSE job[j]]
    /\ spent' = [j \in Jobs |-> IF j[1] = d THEN 0 ELSE spent[j]]
    /\ UNCHANGED <<lane, proc, maint, orphans>>

-----------------------------------------------------------------------------
LaneStep(w) ==
    \/ GiveBack(w)        \/ FailExhausted(w)   \/ Prepare(w)
    \/ NotBegun(w)        \/ Begin(w)           \/ BeginBusy(w)
    \/ BeginLost(w)       \/ HandlerFails(w)    \/ Commit(w)
    \/ CommitLate(w)      \/ CommitUncertain(w) \/ LeaseLost(w)
    \/ LeaseUncertain(w)  \/ SettleBusy(w)      \/ SettleSource(w)
    \/ SettleCancelled(w) \/ SettleFail(w)      \/ SettleRetry(w)
    \/ SettleLost(w)      \/ VerdictLost(w)

ProcStep(p) ==
    Start(p) \/ LoseMaintenance(p) \/ Interrupt(p) \/ Exit(p) \/ Crash(p)
JobStep(j) == BecomeDue(j) \/ Expire(j) \/ ExpireHeld(j) \/ ClaimLost(j)
DocStep(d) ==
    \/ Recover(d)
    \/ Forget(d)
    \/ \E r \in Routes : Admit(d, r) \/ Reset(d, r)

Next ==
    \/ \E p \in Processes : ProcStep(p)
    \/ \E o \in orphans : BackendEnds(o)
    \/ \E j \in Jobs : JobStep(j)
    \/ \E d \in Docs : DocStep(d)
    \/ \E w \in Lanes : LaneStep(w) \/ \E j \in Jobs : Claim(w, j)
    \/ ResumeSources

Spec == Init /\ [][Next]_vars

-----------------------------------------------------------------------------
(* Properties.                                                             *)

TypeOK ==
    /\ job \in [Jobs -> JobRow]
    /\ doc \in [Docs -> Statuses]
    /\ lane \in [Lanes -> Lane]
    /\ \A w \in Lanes : lane[w].phase # "idle" => lane[w].job \in Jobs
    /\ proc \in [Processes -> Modes]
    /\ maint \in Processes \union {NoProc}
    /\ orphans \subseteq Jobs \X Nat
    /\ faults \in 0..MaxFaults
    /\ spent \in [Jobs -> Nat]

\* Two lanes never hold the same claim, whatever crashed, lapsed or was
\* reclaimed, and no lane holds a claim the table has not issued: what makes
\* "this exact claim" in the predicate owned name one worker (jobs.go, Claim
\* and owned).
OneOwner ==
    /\ \A w \in Lanes : lane[w].phase # "idle" =>
          lane[w].gen <= job[lane[w].job].gen
    /\ \A v, w \in Lanes :
          /\ v # w
          /\ lane[v].phase # "idle"
          /\ lane[w].phase # "idle"
          /\ lane[v].job = lane[w].job
          => lane[v].gen # lane[w].gen

\* In one retry cycle a job's handler runs at most MaxAttempts times, not
\* counting runs whose attempt a verdict gave back: crashes, lost verdicts
\* and lapsed leases cannot buy a poison document a fourth run, and a refund
\* is never taken twice (jobs.go, Claim, Release, Wait and refund).
BudgetKept == \A j \in Jobs : spent[j] <= job[j].attempts

\* Whether status s is the story of an extraction in state x and an embedding
\* in state e.
Agrees(s, x, e) ==
    LET over == {"NONE", "COMPLETED"} IN
    CASE s = "ABSENT"     -> x = "NONE" /\ e = "NONE"
      [] s = "PENDING"    -> \/ x \in OpenStates /\ e = "NONE"
                             \/ x \in over /\ e \in OpenStates
      [] s = "PROCESSING" -> x = "COMPLETED" /\ e \in OpenStates
      [] s = "COMPLETED"  -> x \in over /\ e \in over /\ "COMPLETED" \in {x, e}
      [] s = "SKIPPED"    -> x \in over /\ e \in over
      [] s = "FAILED"     -> \/ x = "FAILED" /\ e = "NONE"
                             \/ x \in over /\ e = "FAILED"

\* Between any two steps of any two actors a document and its jobs tell the
\* same story: unfinished means exactly one job that somebody can still
\* claim or resume, failed means exactly one failed job for recovery to find,
\* and nothing is open behind a finished document (jobs.go, Publish, Run and
\* Fail; doctor_queries.go, ResetToPENDING; document_repo.go, reset).
Agreement ==
    \A d \in Docs :
        Agrees(doc[d], job[<<d, "extract">>].state, job[<<d, "embed">>].state)

\* A job is never FAILED or COMPLETED while a handler of it, its own or an
\* expired one that is still physically running, is inside its transaction
\* ("its effects must not meet a failure verdict", jobs.go, Fail).
QuietWhenSettled ==
    \A j \in Jobs : job[j].state \in {"FAILED", "COMPLETED"} => ~Locked(j)

\* The queue does what StageLedger promises: every step of lanes, processes
\* and operators is one atomic step of the ledger or invisible to it.
StageOf(s) == IF s = "NONE" THEN "none"
              ELSE IF s \in OpenStates THEN "open"
              ELSE IF s = "COMPLETED" THEN "completed" ELSE "failed"
L == INSTANCE StageLedger
        WITH stage <- [j \in Jobs |-> StageOf(job[j].state)], status <- doc
ImplementsLedger == L!LSpec

-----------------------------------------------------------------------------
(* Liveness.  The lanes, the clock and PostgreSQL keep going; the claim    *)
(* order (available_at first, expired and READY in turn) keeps a job from  *)
(* being passed over for ever; and the operator runs ingestion again after *)
(* an interrupt or a crash.                                                *)
Fairness ==
    /\ \A w \in Lanes : WF_vars(LaneStep(w))
    /\ \A j \in Jobs : /\ WF_vars(BecomeDue(j))
                       /\ WF_vars(Expire(j))
                       /\ SF_vars(\E w \in Lanes : Claim(w, j))
    /\ WF_vars(\E o \in orphans : BackendEnds(o))
    /\ \A p \in Processes : WF_vars(Start(p)) /\ WF_vars(Exit(p))

FairSpec == Spec /\ Fairness

\* Queued work is never stranded: every READY or RUNNING job is in the end
\* completed, failed, parked for its source or deleted, through crashes,
\* interrupts, lost answers and locks of dead backends.
Settles ==
    \A j \in Jobs : job[j].state \in {"READY", "RUNNING"} ~>
                    job[j].state \notin {"READY", "RUNNING"}
=============================================================================
