---------------------------- MODULE StageLedger ----------------------------
(***************************************************************************)
(* What the ingestion queue promises, with every claim, lease, attempt,    *)
(* lane, process and lock left out.  A document goes through at most two   *)
(* stages: extraction, which leaves text and hands the document to         *)
(* embedding, and embedding, which leaves passages.  Each step moves the   *)
(* document's status, its stage's job and the members it admits together,  *)
(* so that no crash, lost answer or stale worker shows half of a step.     *)
(***************************************************************************)
CONSTANT Docs

VARIABLES stage,    \* stage[<<d, s>>]: none, open, completed or failed
          status    \* status[d]: documents.processing_status, or ABSENT

lvars == <<stage, status>>

LStages == {"extract", "embed"}
LJobs == Docs \X LStages
LRoutes == LStages \union {"declined"}

\* Members of a container that one step admits, each with its route.
LAdmissions ==
    UNION {[K -> LRoutes] : K \in SUBSET {d \in Docs : status[d] = "ABSENT"}}
LWithJobs(st, f) ==
    [j \in LJobs |-> IF j[1] \in DOMAIN f /\ f[j[1]] = j[2]
                     THEN "open" ELSE st[j]]
LWithStubs(sts, f) ==
    [d \in Docs |-> IF d \in DOMAIN f
                    THEN IF f[d] = "declined" THEN "SKIPPED" ELSE "PENDING"
                    ELSE sts[d]]

LInit ==
    /\ stage = [j \in LJobs |-> "none"]
    /\ status = [d \in Docs |-> "ABSENT"]

\* New content enters with the job of its first stage, or declined with none.
LAdmit(d, r) ==
    /\ status[d] = "ABSENT"
    /\ stage' = LWithJobs(stage, [x \in {d} |-> r])
    /\ status' = LWithStubs(status, [x \in {d} |-> r])

\* Extraction leaves text: the document is PROCESSING and embedding is open.
LHandOff(d, f) ==
    /\ stage[<<d, "extract">>] = "open"
    /\ stage[<<d, "embed">>] = "none"
    /\ stage' = LWithJobs([stage EXCEPT ![<<d, "extract">>] = "completed",
                                        ![<<d, "embed">>] = "open"], f)
    /\ status' = LWithStubs([status EXCEPT ![d] = "PROCESSING"], f)

\* A stage ends the document: indexed, a container with no text of its own,
\* or declined.
LEnd(d, s, f) ==
    /\ stage[<<d, s>>] = "open"
    /\ stage' = LWithJobs([stage EXCEPT ![<<d, s>>] = "completed"], f)
    /\ \E v \in {"COMPLETED", "SKIPPED"} :
          status' = LWithStubs([status EXCEPT ![d] = v], f)

LFail(d, s) ==
    /\ stage[<<d, s>>] = "open"
    /\ stage' = [stage EXCEPT ![<<d, s>>] = "failed"]
    /\ status' = [status EXCEPT ![d] = "FAILED"]

\* Recovery reopens the stage that failed, or puts the document of an
\* unfinished one back to PENDING.
LRecover(d, s) ==
    /\ stage[<<d, s>>] \in {"open", "failed"}
    /\ stage' = [stage EXCEPT ![<<d, s>>] = "open"]
    /\ status' = [status EXCEPT ![d] = "PENDING"]

\* A known document starts again down another route, or is refused.
LReroute(d, r) ==
    /\ status[d] # "ABSENT"
    /\ stage' = LWithJobs([j \in LJobs |-> IF j[1] = d THEN "none" ELSE stage[j]],
                          [x \in {d} |-> r])
    /\ status' = LWithStubs(status, [x \in {d} |-> r])

LForget(d) ==
    /\ status[d] # "ABSENT"
    /\ stage' = [j \in LJobs |-> IF j[1] = d THEN "none" ELSE stage[j]]
    /\ status' = [status EXCEPT ![d] = "ABSENT"]

LDocStep(d) ==
    \/ LForget(d)
    \/ \E f \in LAdmissions : LHandOff(d, f)
    \/ \E f \in LAdmissions, s \in LStages : LEnd(d, s, f)
    \/ \E r \in LRoutes : LAdmit(d, r) \/ LReroute(d, r)
    \/ \E s \in LStages : LFail(d, s) \/ LRecover(d, s)

LNext == \E d \in Docs : LDocStep(d)

LSpec == LInit /\ [][LNext]_lvars
=============================================================================
