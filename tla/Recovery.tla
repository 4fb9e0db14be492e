------------------------------ MODULE Recovery ------------------------------
(***************************************************************************)
(* Recovery (cli/recover.go, doctor/recovery.go): an operator's run        *)
(* selects documents by their status, reads their jobs, classifies, and    *)
(* applies the plan one document at a time, each in a transaction that     *)
(* first tries the advisory locks of the document's jobs and then compares *)
(* the rows with the plan.                                                 *)
(*                                                                         *)
(* The maintenance lock belongs to a connection and can be lost without    *)
(* recovery noticing; handlers of a dead process may still be working on   *)
(* the server.  So everything that ingestion does to documents and jobs    *)
(* can meet any statement of a recovery.                                   *)
(***************************************************************************)
EXTENDS Integers, Sequences, SequencesExt, FiniteSets

CONSTANTS Files,       \* documents
          Cap,         \* recoverySelectionCap
          Found,       \* of each document: what it may be found like
          MaxEvents    \* bound on the claims, and times the threshold passes

VARIABLES file,      \* documents rows: [status, reason]
          jobs,      \* of each document, its two stages: [state, gen, live]
          hold,      \* of each job: the generation whose handler is inside its
                     \* transaction, and so holds the advisory lock; 0 for none
          updated,   \* documents by updated_at, oldest first
          stale,     \* documents not updated within the threshold
          op,        \* the recovery under way
          ingesting, \* an ingestion runs
          events

recoveryVars == <<file, jobs, hold, updated, stale, op, ingesting, events>>
recoveryTables == <<file, jobs, hold, updated, stale>>

Stages == {1, 2}
NoJob == [state |-> "NONE", gen |-> 0, live |-> FALSE]
OpenJobs(d) == {s \in Stages : jobs[d][s].state \notin {"NONE", "COMPLETED"}}
HasNoJob(d) == \A s \in Stages : jobs[d][s].state = "NONE"
\* A recorded reason is known by its class: "retryable", "decline" or "terminal";
\* what is unclassified fares like the terminal ones.
Redrivable == {"retryable", "decline"}
Unfinished == {"PENDING", "PROCESSING"}

DocumentRows == [status : Unfinished \union {"COMPLETED", "SKIPPED", "FAILED"},
                 reason : Redrivable \union {"none", "terminal"}]
JobRows ==
    [state : {"NONE", "READY", "RUNNING", "WAITING_SOURCE", "FAILED", "COMPLETED"},
     gen : Nat, live : BOOLEAN]
\* Rows that ingestion leaves: a job is not settled under its handler's lock,
\* embedding is published when the text is there, and what is unfinished or failed
\* has a job that is not completed, or is older than the queue.
Sound(row, stages, inside) ==
    /\ row \in DocumentRows
    /\ stages \in [Stages -> JobRows] /\ inside \in [Stages -> Nat]
    /\ \A s \in Stages : inside[s] # 0 =>
          stages[s].state \in {"READY", "RUNNING", "WAITING_SOURCE"}
    /\ stages[1].state \in {"NONE", "COMPLETED"} \/ stages[2].state = "NONE"
    /\ row.status \in Unfinished \union {"FAILED"} =>
          \/ \A s \in Stages : stages[s].state = "NONE"
          \/ \E s \in Stages : stages[s].state \notin {"NONE", "COMPLETED"}
ASSUME RecoveryAssumption ==
    /\ Cap \in Nat \ {0} /\ MaxEvents \in Nat /\ IsFiniteSet(Files)
    /\ \A d \in Files : \A found \in Found[d] : Sound(found.file, found.jobs, found.hold)

NoRecovery == [at |-> "idle", mode |-> "default", items |-> <<>>, ids |-> {},
               exclusive |-> FALSE]

RecoveryInit ==
    /\ \E found \in [Files -> UNION {Found[d] : d \in Files}] :
          /\ \A d \in Files : found[d] \in Found[d]
          /\ file = [d \in Files |-> found[d].file]
          /\ jobs = [d \in Files |-> found[d].jobs]
          /\ hold = [d \in Files |-> found[d].hold]
    /\ updated = SetToSeq(Files)
    /\ stale = Files
    /\ op = NoRecovery /\ ingesting = FALSE /\ events = 0

\* updated_at = now().
Touch(d) ==
    /\ updated' = Append(SelectSeq(updated, LAMBDA e : e # d), d)
    /\ stale' = stale \ {d}

-----------------------------------------------------------------------------
(* Selection, planning.                                                    *)

ByAge(docs) == SelectSeq(updated, LAMBDA d : d \in docs)
Selected(docs) == IF Cardinality(docs) < Cap THEN Cardinality(docs) ELSE Cap
Oldest(docs) == [i \in 1..Selected(docs) |-> ByAge(docs)[i]]
Item(d) == [doc |-> d, status |-> file[d].status, reason |-> file[d].reason,
            jobless |-> file[d].status = "FAILED" /\ HasNoJob(d), jobs |-> {}]
Items(docs) == [i \in DOMAIN docs |-> Item(docs[i])]

Modes == {"default", "reason", "all"}
Recover(mode) ==
    /\ op.at = "idle" /\ ~ingesting
    /\ op' = [NoRecovery EXCEPT !.at = IF mode = "reason" THEN "failed" ELSE "pending",
                                !.mode = mode, !.exclusive = TRUE]
    /\ UNCHANGED <<recoveryTables, ingesting, events>>

\* A stale selection whose statement fails is left out.
StalePENDING ==
    /\ op.at = "pending"
    /\ \E docs \in {Oldest({d \in stale : file[d].status = "PENDING"}), <<>>} :
          op' = [op EXCEPT !.at = "processing", !.items = Items(docs)]
    /\ UNCHANGED <<recoveryTables, ingesting, events>>

StalePROCESSING ==
    /\ op.at = "processing"
    /\ \E docs \in {Oldest({d \in stale : file[d].status = "PROCESSING"}), <<>>} :
          op' = [op EXCEPT !.at = "failed", !.items = @ \o Items(docs)]
    /\ UNCHANGED <<recoveryTables, ingesting, events>>

\* The operator names reasons, here the terminal one.
Named(reason) == op.mode = "all" \/ (op.mode = "reason" /\ reason = "terminal")
\* The default selection does without it, a named one fails.
SelectFailed ==
    /\ op.at = "failed"
    /\ LET redrivable(d) == \/ file[d].reason \in Redrivable \/ HasNoJob(d)
           picked(d) == /\ file[d].status = "FAILED"
                        /\ IF op.mode = "default" THEN redrivable(d) ELSE Named(file[d].reason)
           select(docs) == [op EXCEPT !.at = "jobs", !.items = @ \o Items(docs)]
       IN \/ op' = select(Oldest({d \in Files : picked(d)}))
          \/ op' = IF op.mode = "default" THEN select(<<>>) ELSE NoRecovery
    /\ UNCHANGED <<recoveryTables, ingesting, events>>

\* JobsForDocuments; the plan follows from what was read.  Without it there is
\* none.
Ref(d, s) == [stage |-> s, state |-> jobs[d][s].state, gen |-> jobs[d][s].gen,
              live |-> jobs[d][s].state = "RUNNING" /\ jobs[d][s].live]
ReadJobs ==
    /\ op.at = "jobs"
    /\ \/ op' = NoRecovery
       \/ op' = [op EXCEPT !.at = "planned",
             !.items = [i \in DOMAIN op.items |-> LET d == op.items[i].doc
                 IN [op.items[i] EXCEPT !.jobs = {Ref(d, s) : s \in OpenJobs(d)}]]]
    /\ UNCHANGED <<recoveryTables, ingesting, events>>

HasResettable(refs) == \E j \in refs : j.state = "FAILED" \/ (j.state = "RUNNING" /\ ~j.live)
\* classify: whether the item is to be redriven.
Redriven(item) ==
    /\ \A j \in item.jobs : ~j.live
    /\ \/ item.status \in Unfinished /\ (item.jobs = {} \/ HasResettable(item.jobs))
       \/ /\ item.status = "FAILED"
          /\ item.jobless \/ Named(item.reason) \/ item.reason \in Redrivable

-----------------------------------------------------------------------------
(* Application: ResetToPENDING, item by item.                              *)

AtHand == op.items[1]
\* On to the next item; after the last the run ends.
Done ==
    IF Len(op.items) = 1 THEN NoRecovery
    ELSE [op EXCEPT !.at = "apply", !.items = Tail(@), !.ids = {}]

\* A dry run ends here.
OperatorDecides ==
    /\ op.at = "planned"
    /\ \/ op' = [op EXCEPT !.at = "apply"] /\ op.items # <<>>
       \/ op' = NoRecovery
    /\ UNCHANGED <<recoveryTables, ingesting, events>>

Skip ==
    /\ op.at = "apply" /\ ~Redriven(AtHand)
    /\ op' = Done
    /\ UNCHANGED <<recoveryTables, ingesting, events>>

\* openJobIDs, outside of any lock.
ListJobs ==
    /\ op.at = "apply" /\ Redriven(AtHand)
    /\ op' = [op EXCEPT !.at = "lock", !.ids = OpenJobs(AtHand.doc)]
    /\ UNCHANGED <<recoveryTables, ingesting, events>>

TryLocks ==
    /\ op.at = "lock"
    /\ op' = IF \E s \in op.ids : hold[AtHand.doc][s] # 0 THEN Done
             ELSE [op EXCEPT !.at = "reset"]
    /\ UNCHANGED <<recoveryTables, ingesting, events>>

Eligible(d) == {s \in OpenJobs(d) : \/ jobs[d][s].state = "FAILED"
                                    \/ jobs[d][s].state = "RUNNING" /\ ~jobs[d][s].live}
\* Mutant: states are compared, generations are not.
SameStates(d, refs) ==
    {<<s, jobs[d][s].state>> : s \in OpenJobs(d)} = {<<j.stage, j.state>> : j \in refs}
AsPlanned(d, refs) ==
    {<<s, jobs[d][s].state, jobs[d][s].gen>> : s \in OpenJobs(d)}
        = {<<j.stage, j.state, j.gen>> : j \in refs}
Refuses(d, refs) == \/ \E s \in OpenJobs(d) : Ref(d, s).live
                    \/ ~AsPlanned(d, refs)

Requeued(job) == [state |-> "READY", gen |-> job.gen + 1, live |-> FALSE]
Reset ==
    /\ op.at = "reset"
    /\ LET d == AtHand.doc
           queued == OpenJobs(d) # {} /\ Eligible(d) = {}
       IN /\ op' = Done
          /\ IF \/ Refuses(d, AtHand.jobs) \/ queued
                \/ file[d].status \notin Unfinished \union {"FAILED"}
             THEN UNCHANGED recoveryTables
             ELSE /\ file' = [file EXCEPT ![d] = [status |-> "PENDING", reason |-> "none"]]
                  /\ jobs' = [jobs EXCEPT ![d] = [s \in Stages |->
                        IF s \in Eligible(d) THEN Requeued(jobs[d][s]) ELSE jobs[d][s]]]
                  /\ Touch(d)
                  /\ UNCHANGED hold
    /\ UNCHANGED <<ingesting, events>>

\* The statement fails, or exceeds the control deadline.
NotReset ==
    /\ op.at \in {"lock", "reset"}
    /\ op' = Done
    /\ UNCHANGED <<recoveryTables, ingesting, events>>

-----------------------------------------------------------------------------
(* Meanwhile.                                                              *)

Happens == events < MaxEvents /\ events' = events + 1
SetJob(d, s, job) == jobs' = [jobs EXCEPT ![d][s] = job]
Locked(d, s) ==
    hold[d][s] # 0 \/ (op.at = "reset" /\ AtHand.doc = d /\ s \in op.ids)

\* The connection with the maintenance lock breaks.
LoseMaintenance ==
    /\ op.at # "idle" /\ op.exclusive
    /\ op' = [op EXCEPT !.exclusive = FALSE]
    /\ UNCHANGED <<recoveryTables, ingesting, events>>
IngestBegins ==
    /\ ~ingesting /\ ~op.exclusive
    /\ ingesting' = TRUE
    /\ UNCHANGED <<recoveryTables, op, events>>
IngestEnds == /\ ingesting /\ ingesting' = FALSE
              /\ UNCHANGED <<recoveryTables, op, events>>

\* A worker claims a job.  Its handler begins, unless one of a dead process or a
\* reset has the lock; then the worker releases the job again, which is a Verdict.
Start(d, s) ==
    /\ ingesting
    /\ \/ jobs[d][s].state = "READY"
       \/ jobs[d][s].state = "RUNNING" /\ ~jobs[d][s].live
    /\ Happens
    /\ SetJob(d, s, [state |-> "RUNNING", gen |-> jobs[d][s].gen + 1, live |-> TRUE])
    /\ \/ Locked(d, s) /\ UNCHANGED hold
       \/ ~Locked(d, s) /\ hold' = [hold EXCEPT ![d][s] = jobs[d][s].gen + 1]
    /\ UNCHANGED <<file, updated, stale, op, ingesting>>

\* The lease runs out: its worker is gone or was stopped.
Expire(d, s) ==
    /\ jobs[d][s].state = "RUNNING" /\ jobs[d][s].live
    /\ SetJob(d, s, [jobs[d][s] EXCEPT !.live = FALSE])
    /\ UNCHANGED <<file, hold, updated, stale, op, ingesting, events>>

\* The handler's transaction commits, with or without its worker: the stage is
\* complete, and the next one, if any, is queued.
HandlerCommits(d, s) ==
    /\ hold[d][s] # 0 /\ hold[d][s] = jobs[d][s].gen /\ jobs[d][s].state = "RUNNING"
    /\ hold' = [hold EXCEPT ![d][s] = 0]
    /\ LET done == [jobs[d][s] EXCEPT !.state = "COMPLETED", !.live = FALSE]
           next == [state |-> "READY", gen |-> 1, live |-> FALSE]
       IN \/ /\ s = 1
             /\ file' = [file EXCEPT ![d].status = "PROCESSING"]
             /\ jobs' = [jobs EXCEPT ![d] = <<done, next>>]
          \/ /\ s = 2
             /\ file' = [file EXCEPT ![d].status = "COMPLETED"]
             /\ SetJob(d, s, done)
          \/ /\ file' = [file EXCEPT ![d] = [status |-> "SKIPPED", reason |-> "decline"]]
             /\ SetJob(d, s, done)
    /\ Touch(d)
    /\ UNCHANGED <<op, ingesting, events>>
\* It does not.
HandlerRollsBack(d, s) ==
    /\ hold[d][s] # 0
    /\ hold' = [hold EXCEPT ![d][s] = 0]
    /\ UNCHANGED <<file, jobs, updated, stale, op, ingesting, events>>

\* Its worker, still the owner, settles the job; the backend may not have noticed
\* yet that its handler is gone.  Only Fail tries the lock.
Verdict(d, s) ==
    /\ ingesting
    /\ jobs[d][s].state = "RUNNING" /\ jobs[d][s].live
    /\ \/ \E state \in {"READY", "WAITING_SOURCE"} :
             /\ SetJob(d, s, [jobs[d][s] EXCEPT !.state = state, !.live = FALSE])
             /\ UNCHANGED <<file, updated, stale>>
       \/ \E reason \in {"retryable", "terminal"} :
             /\ ~Locked(d, s)
             /\ SetJob(d, s, [jobs[d][s] EXCEPT !.state = "FAILED", !.live = FALSE])
             /\ file' = [file EXCEPT ![d] = [status |-> "FAILED", reason |-> reason]]
             /\ Touch(d)
    /\ UNCHANGED <<hold, op, ingesting, events>>

\* A scan retries source waits and admits anew what has no job.
ResumesSources(d) ==
    /\ ingesting
    /\ \/ \E s \in Stages :
             /\ jobs[d][s].state = "WAITING_SOURCE"
             /\ SetJob(d, s, Requeued(jobs[d][s]))
       \/ /\ HasNoJob(d) /\ file[d].status \in Unfinished
          /\ SetJob(d, 1, Requeued(NoJob))
    /\ UNCHANGED <<file, hold, updated, stale, op, ingesting, events>>

\* The threshold passes.
Age ==
    /\ stale # Files /\ stale' = Files
    /\ Happens
    /\ UNCHANGED <<file, jobs, hold, updated, op, ingesting>>

RecoveryNext ==
    \/ \E mode \in Modes : Recover(mode)
    \/ StalePENDING \/ StalePROCESSING \/ SelectFailed \/ ReadJobs
    \/ OperatorDecides \/ Skip \/ ListJobs \/ TryLocks \/ Reset \/ NotReset
    \/ LoseMaintenance \/ IngestBegins \/ IngestEnds \/ Age
    \/ \E d \in Files : ResumesSources(d)
          \/ \E s \in Stages :
                \/ Start(d, s) \/ Expire(d, s) \/ Verdict(d, s)
                \/ HandlerCommits(d, s) \/ HandlerRollsBack(d, s)
RecoverySpec == RecoveryInit /\ [][RecoveryNext]_recoveryVars

-----------------------------------------------------------------------------
(* Properties.                                                             *)

\* A document that recovery changes is one nobody is working on, with its jobs
\* exactly as the plan saw them; what it changes is queued again, and nothing
\* else of it is touched.
PlanHonoured ==
    [][op.at = "reset" /\ op' # op =>
           \A d \in {e \in Files : file'[e] # file[e] \/ jobs'[e] # jobs[e]} :
               /\ d = AtHand.doc
               /\ \A s \in Stages : hold[d][s] = 0
               /\ \A s \in Stages : jobs'[d][s] # jobs[d][s] =>
                     /\ jobs'[d][s].state = "READY"
                     /\ \E j \in AtHand.jobs :
                           j.stage = s /\ j.state = jobs[d][s].state /\ j.gen = jobs[d][s].gen
               /\ HasNoJob(d) \/ \E s \in Stages : jobs'[d][s].state = "READY"]_recoveryVars
=============================================================================
