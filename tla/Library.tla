------------------------------ MODULE Library ------------------------------
(***************************************************************************)
(* The library of one workspace: which documents the tables know, where    *)
(* their originals were last seen and what holds what, while files change. *)
(* The scan and the resumption of rows without a job                       *)
(* (internal/discovery/service.go) with the handlers that read originals   *)
(* (internal/source/source.go, internal/worker/email_worker.go) run as one *)
(* ingestion (internal/cli/ingest.go); the sweep of unheld documents, the  *)
(* forgetting of one and the wipe (internal/cli/reconcile_deletions.go,    *)
(* reset.go, internal/retention) run alone: one maintenance lock is held   *)
(* by whichever runs.                                                      *)
(*                                                                         *)
(* Content is identity: a document is known by its content.  A transaction *)
(* is a step; Admission has what happens between two of them, JobQueue     *)
(* what becomes of a claim.                                                *)
(***************************************************************************)
EXTENDS Naturals, FiniteSets, FiniteSetsExt

CONSTANTS Contents,   \* what a file or a member can hold
          Paths,      \* where originals are staged
          None,
          Parts,      \* the members of each content, were it unrolled
          Ignored,    \* members the workspace leaves out by their names
          Route,      \* by version of the program: what reads each content
          Legacy,     \* documents of a database older than jobs and placements
          MaxChanges, \* bound on changes to files, deferrals and crashes
          MaxCommands \* bound on sweeps, forgets and wipes

Routes == {"email", "archive", "pdf", "text", "declined"}
Containers == {"email", "archive"}

ASSUME LibraryAssumption ==
    /\ IsFiniteSet(Contents)
    /\ None \notin Contents \union Paths
    /\ Parts \in [Contents -> SUBSET Contents]
    /\ \A c \in Contents : c \notin Parts[c]
    /\ Ignored \subseteq Contents
    /\ DOMAIN Route = 1..Cardinality(DOMAIN Route)
    /\ 1 \in DOMAIN Route
    /\ \A v \in DOMAIN Route : Route[v] \in [Contents -> Routes]
    /\ Legacy \subseteq Contents
    /\ {MaxChanges, MaxCommands} \subseteq Nat

VARIABLES disk,     \* the staged files
          version,  \* which version of the program runs
          doc,      \* documents
          job,      \* ingestion_jobs: the open stage of each document
          occ,      \* source_occurrences
          holds,    \* document_placements: <<container, contained>>
          members,  \* source_members: <<parent, child>>
          marker,   \* placements_backfilled_at is set
          run,      \* the command that holds the maintenance lock
          steady,   \* history: paths unchanged since its walk began
          changes,
          commands

tables == <<doc, job, occ, holds, members, marker>>
libraryVars == <<disk, version, tables, run, steady, changes, commands>>

-----------------------------------------------------------------------------
(* Documents and what they hold.                                           *)

Statuses == {"none", "PENDING", "COMPLETED", "SKIPPED"}
\* shown: the display fields name an original of its own.
Document == [status : Statuses, type : Routes, shown : BOOLEAN]
NoDocument == [status |-> "none", type |-> "declined", shown |-> FALSE]

\* found, missing: running, after its handler looked for its source.
JobStages == {"none", "ready", "found", "missing", "waiting", "completed"}
Running == {c \in Contents : job[c] \in {"found", "missing"}}

\* doc None: no occurrence was ever recorded.
Occurrence == [doc : Contents \union {None}, seen : BOOLEAN, available : BOOLEAN]

Known == {c \in Contents : doc[c].status # "none"}
Reads(c) == Route[version][c]

\* Everything reachable from S along the pairs R (U names the set so far, which
\* TLC would otherwise compute anew for every pair).
Closure(S, R) ==
    FoldSet(LAMBDA n, T :
                UNION {U \union {r[2] : r \in {q \in R : q[1] \in U}} : U \in {T}},
            S, 1..Cardinality(Contents))

\* What a container really holds, were all of it unrolled.
PartPairs == UNION {{c} \X Parts[c] : c \in {d \in Contents : Reads(d) \in Containers}}

\* Available and still the content that was hashed, or replayed out of a parent
\* that is (Resolver.read).
Readable ==
    Closure({c \in Contents : \E p \in Paths :
                occ[p].available /\ occ[p].doc = c /\ disk[p] = c},
            {m \in members : m[2] \in Parts[m[1]]})

Located(c, at) == \E p \in Paths : at[p].available /\ at[p].doc = c

-----------------------------------------------------------------------------
(* Routes: dispatch, settle, Reroute, Refuse.                              *)

Stub(c, shown) ==
    [status |-> IF Reads(c) = "declined" THEN "SKIPPED" ELSE "PENDING",
     type |-> Reads(c), shown |-> shown]
FirstJob(c) == IF Reads(c) = "declined" THEN "none" ELSE "ready"

\* Mutant: text stays text whatever reads it now.
SkippedRereads(c) ==
    doc[c].status = "SKIPPED" /\ job[c] = "none" /\ Reads(c) # "declined"

\* Text a handler of its own now reads, or content skipped when it was routed.
Rereads(c) ==
    \/ doc[c].type = "text" /\ Reads(c) \notin {"declined", "text"}
    \/ doc[c].status = "SKIPPED" /\ job[c] = "none" /\ Reads(c) # "declined"
Unread(c) ==
    /\ Reads(c) = "declined"
    /\ doc[c].type \in {"text", "archive"} \/ \E h \in holds : h[1] = c

\* reset leaves a document whose job runs to the next scan.
Rerouted(c) == c \in Known \ Running /\ Rereads(c)
Refused(c) == c \in Known \ Running /\ ~Rereads(c) /\ Unread(c)
Settles(c) == Rerouted(c) \/ Refused(c)

\* The tables once the documents in S were settled and containment R recorded.
\* A document that was refused holds nothing any more.
Settled(S, R) ==
    LET kept(r) == ~(r[1] \in S /\ Refused(r[1])) IN
    /\ doc' = [c \in Contents |->
          IF c \notin S \/ ~Settles(c) THEN doc[c]
          ELSE Stub(c, doc[c].shown)]
    /\ job' = [c \in Contents |->
          IF c \notin S \/ ~Settles(c) THEN job[c] ELSE FirstJob(c)]
    /\ holds' = {r \in holds : kept(r)} \union R
    /\ members' = {r \in members : kept(r)} \union R

\* The containers among c and its known members whose own members are replayed;
\* settling keeps out of those it has just corrected (backfillBounded).
Replayed(c, settling) ==
    {e \in Closure({c}, {r \in PartPairs :
                            /\ r[2] \in Known
                            /\ ~(settling /\ Settles(r[2]))}) :
        Reads(e) \in Containers}
Replays(c, settling) ==
    {r \in Replayed(c, settling) \X Known : r[2] \in Parts[r[1]]}

-----------------------------------------------------------------------------
(* Files.                                                                  *)

Quiet == [op |-> "none", at |-> "-", listed |-> {}, clean |-> TRUE, plan |-> {}]
Ops == {"ingest", "sweep", "forget"}
Idle == run = Quiet

\* A file appears, is replaced or goes.
Change(p) ==
    /\ changes < MaxChanges
    /\ changes' = changes + 1
    /\ \E c \in (Contents \union {None}) \ {disk[p]} : disk' = [disk EXCEPT ![p] = c]
    /\ steady' = steady \ {p}
    /\ UNCHANGED <<version, tables, run, commands>>

-----------------------------------------------------------------------------
(* The walk of the sources, for a scan or to bind what is known.           *)

\* BeginScan, and the listing of the directory.
Walk(op) ==
    /\ run' = [Quiet EXCEPT !.op = op, !.at = "walk",
                            !.listed = {p \in Paths : disk[p] # None}]
    /\ occ' = [p \in Paths |-> [occ[p] EXCEPT !.seen = FALSE]]
    /\ steady' = Paths
    /\ UNCHANGED <<disk, version, doc, job, holds, members, marker, changes>>

Ingest == Idle /\ Walk("ingest") /\ UNCHANGED commands
Command(op) ==
    /\ Idle
    /\ commands < MaxCommands
    /\ commands' = commands + 1
    /\ Walk(op)

Visits(p) == run.at = "walk" /\ p \in run.listed
Visited(p) == run' = [run EXCEPT !.listed = @ \ {p}]
Observe(p) ==
    occ' = [occ EXCEPT ![p] = [doc |-> disk[p], seen |-> TRUE, available |-> TRUE]]

\* Service.admit.
AdmitFile(p) ==
    /\ run.op = "ingest"
    /\ Visits(p)
    /\ disk[p] # None
    /\ Visited(p)
    /\ Observe(p)
    /\ LET c == disk[p] IN
       IF c \notin Known
       THEN /\ doc' = [doc EXCEPT ![c] = Stub(c, TRUE)]
            /\ job' = [job EXCEPT ![c] = FirstJob(c)]
            /\ UNCHANGED <<holds, members>>
       ELSE IF Settles(c) \/ doc[c].status = "PENDING"
       THEN Settled({c}, {})
       ELSE LET R == Replays(c, TRUE) IN
            Settled({r[2] : r \in R}, R)
    /\ UNCHANGED <<disk, version, marker, steady, changes, commands>>

\* BindExisting.
BindFile(p) ==
    /\ run.op # "ingest"
    /\ Visits(p)
    /\ disk[p] # None
    /\ Visited(p)
    /\ IF disk[p] \in Known
       THEN Observe(p) /\ Settled({}, Replays(disk[p], FALSE))
       ELSE UNCHANGED <<doc, job, occ, holds, members>>
    /\ UNCHANGED <<disk, version, marker, steady, changes, commands>>

\* It kept changing while it was read, or the store refused its values.
DeferFile(p) ==
    /\ Visits(p)
    /\ disk[p] # None
    /\ changes < MaxChanges
    /\ changes' = changes + 1
    /\ run' = [run EXCEPT !.listed = @ \ {p}, !.clean = FALSE]
    /\ UNCHANGED <<disk, version, tables, steady, commands>>

\* Gone since it was listed: the walk ends, and an ingestion works off what it
\* has admitted.
LoseFile(p) ==
    /\ Visits(p)
    /\ disk[p] = None
    /\ run' = IF run.op = "ingest"
              THEN [run EXCEPT !.at = "drain", !.listed = {}, !.clean = FALSE]
              ELSE Quiet
    /\ UNCHANGED <<disk, version, tables, steady, changes, commands>>

\* Mutant: a scan that deferred a file still proves absence.
FinishAnyway == run.at = "walk" /\ run.listed = {}
Complete == run.at = "walk" /\ run.listed = {} /\ run.clean

\* FinishScan.  Display fields of documents a handler holds stay as they were.
FinishScan ==
    /\ Complete
    /\ occ' = [p \in Paths |-> [occ[p] EXCEPT !.available = @ /\ occ[p].seen]]
    /\ \E skipped \in SUBSET Running :
          doc' = [c \in Contents |->
              IF c \in skipped THEN doc[c]
              ELSE [doc[c] EXCEPT !.shown = Located(c, occ')]]
    /\ run' = [run EXCEPT !.at = IF run.op = "ingest" THEN "legacy" ELSE "contain"]
    /\ UNCHANGED <<disk, version, job, holds, members, marker, steady, changes,
                   commands>>

\* An incomplete scan resumes what it observed; a sweep ends.
FinishIncomplete ==
    /\ run.at = "walk"
    /\ run.listed = {}
    /\ ~Complete
    /\ run' = IF run.op = "ingest" THEN [run EXCEPT !.at = "legacy"] ELSE Quiet
    /\ UNCHANGED <<disk, version, tables, steady, changes, commands>>

-----------------------------------------------------------------------------
(* The rest of an ingestion: ResumeLegacy, ResumeSources, drain.           *)

\* Rows without a job that are reachable from what this scan observed.
Jobless ==
    {c \in Closure({occ[p].doc : p \in {q \in Paths : occ[q].seen /\ occ[q].available}},
                   holds) :
        c \in Known /\ doc[c].status = "PENDING" /\ job[c] = "none"}

ResumeLegacy(c) ==
    /\ run.at = "legacy"
    /\ c \in Jobless
    /\ IF doc[c].type = "text"
       THEN /\ job' = [job EXCEPT ![c] = "ready"]
            /\ UNCHANGED <<doc, run>>
       ELSE IF c \in Readable
       THEN /\ doc' = [doc EXCEPT ![c] =
                   IF Reads(c) = "declined" THEN [@ EXCEPT !.status = "SKIPPED"]
                   ELSE Stub(c, @.shown)]
            /\ job' = [job EXCEPT ![c] = FirstJob(c)]
            /\ UNCHANGED run
       ELSE /\ run' = [run EXCEPT !.at = "drain", !.clean = FALSE]
            /\ UNCHANGED <<doc, job>>
    /\ UNCHANGED <<disk, version, occ, holds, members, marker, steady, changes,
                   commands>>

Resumed == [c \in Contents |-> IF job[c] = "waiting" THEN "ready" ELSE job[c]]
ResumeSources ==
    /\ run.at = "legacy"
    /\ Jobless = {}
    /\ job' = Resumed
    /\ run' = [run EXCEPT !.at = "drain"]
    /\ UNCHANGED <<disk, version, doc, occ, holds, members, marker, steady, changes,
                   commands>>

\* Listening, the next scan begins within the minute.
Tick ==
    /\ run.at = "drain"
    /\ Walk("ingest")
    /\ UNCHANGED commands

\* WaitDrained saw neither READY nor RUNNING work.
QuietQueue == \A c \in Contents : job[c] \notin {"ready", "found", "missing"}
Waits == \E c \in Contents : job[c] = "waiting"

\* Waits recorded after they were retried are retried once more.
Again ==
    /\ run.at = "drain"
    /\ QuietQueue
    /\ run.clean
    /\ Waits
    /\ job' = Resumed
    /\ run' = [run EXCEPT !.at = "again"]
    /\ UNCHANGED <<disk, version, doc, occ, holds, members, marker, steady, changes,
                   commands>>

\* Mutant: waits are retried only by the feed.
DrainedOnce == run.at \in {"drain", "again"} /\ QuietQueue
Drained ==
    \/ run.at = "drain" /\ QuietQueue /\ ~(run.clean /\ Waits)
    \/ run.at = "again" /\ QuietQueue

Finish ==
    /\ Drained
    /\ run' = Quiet
    /\ UNCHANGED <<disk, version, tables, steady, changes, commands>>

-----------------------------------------------------------------------------
(* Handlers.                                                               *)

\* Plain text is in the database already; everything else is read back.
Claim(c) ==
    /\ run.op = "ingest"
    /\ job[c] = "ready"
    /\ job' = [job EXCEPT ![c] = IF doc[c].type = "text" \/ c \in Readable
                                 THEN "found" ELSE "missing"]
    /\ UNCHANGED <<disk, version, doc, occ, holds, members, marker, run, steady,
                   changes, commands>>

Park(c) ==
    /\ job[c] = "missing"
    /\ job' = [job EXCEPT ![c] = "waiting"]
    /\ UNCHANGED <<disk, version, doc, occ, holds, members, marker, run, steady,
                   changes, commands>>

\* An archive the formats do not unroll any more, text they route elsewhere.
Declines(c) ==
    \/ doc[c].type = "archive" /\ Reads(c) = "declined"
    \/ doc[c].type = "text" /\ Reads(c) # "text"
Decline(c) ==
    /\ job[c] = "found"
    /\ Declines(c)
    /\ doc' = [doc EXCEPT ![c].status = "SKIPPED"]
    /\ job' = [job EXCEPT ![c] = "completed"]
    /\ UNCHANGED <<disk, version, occ, holds, members, marker, run, steady, changes,
                   commands>>

Held(c) == Parts[c] \ Ignored

\* EmailWorker.Handle, or the handler of a leaf.
Commit(c) ==
    /\ job[c] = "found"
    /\ ~Declines(c)
    /\ LET kept == IF doc[c].type \in Containers THEN Held(c) ELSE {}
           new == kept \ Known
       IN  /\ doc' = [d \in Contents |->
                 IF d = c THEN [doc[c] EXCEPT !.status = "COMPLETED"]
                 ELSE IF d \in new THEN Stub(d, FALSE) ELSE doc[d]]
           /\ job' = [d \in Contents |->
                 IF d = c THEN "completed"
                 ELSE IF d \in new THEN FirstJob(d) ELSE job[d]]
           /\ holds' = holds \union ({c} \X kept)
           /\ members' = members \union ({c} \X kept)
    /\ UNCHANGED <<disk, version, occ, marker, run, steady, changes, commands>>

\* The process ends at any point, by a signal or a crash: its claims return.
Stop ==
    /\ ~Idle
    /\ changes < MaxChanges
    /\ changes' = changes + 1
    /\ run' = Quiet
    /\ job' = [c \in Contents |-> IF c \in Running THEN "ready" ELSE job[c]]
    /\ UNCHANGED <<disk, version, doc, occ, holds, members, marker, steady, commands>>

\* A new version reads other formats.
Upgrade ==
    /\ Idle
    /\ version + 1 \in DOMAIN Route
    /\ version' = version + 1
    /\ UNCHANGED <<disk, tables, run, steady, changes, commands>>

-----------------------------------------------------------------------------
(* Sweep, forget and wipe.                                                 *)

\* ensureContainment: one pass over every container, until the marker is set.
\* A container that cannot be read stops the command.
Contain ==
    /\ run.at = "contain"
    /\ LET all == {c \in Known : doc[c].type \in Containers}
           whole == marker \/ all \subseteq Readable
       IN  /\ marker' = whole
           /\ holds' = IF marker THEN holds
                       ELSE holds \union {r \in (all \intersect Readable) \X Known :
                                             r[2] \in Parts[r[1]]}
           /\ run' = IF whole THEN [run EXCEPT !.at = "plan"] ELSE Quiet
    /\ UNCHANGED <<disk, version, doc, job, occ, members, steady, changes, commands>>

\* Mutant: only direct references count.
HeldDirectly(S, R) == S \union {r[2] : r \in {q \in R : q[1] \in S}}
HeldBy(S, R) == Closure(S, R)

\* Pruner.Plan: members are found again in the files, unless a container cannot
\* be unrolled (opaque), and along recorded containment, but not into ignored
\* ones.
Plan ==
    /\ run.op = "sweep"
    /\ run.at = "plan"
    /\ \E opaque \in SUBSET Contents :
          LET files == {disk[p] : p \in Paths} \ {None}
              parts == {r \in PartPairs : r[1] \notin opaque}
              contents == Closure(files, {r \in parts : r[2] \notin Ignored})
              ignored == {r[2] : r \in {q \in parts :
                             q[1] \in contents /\ q[2] \in Ignored}} \ contents
              held == HeldBy(contents \intersect Known,
                             {r \in holds : r[2] \notin ignored})
          IN  run' = IF files = {} THEN Quiet   \* ErrStagingEmpty
                     ELSE [run EXCEPT !.at = "delete", !.plan = Known \ held]
    /\ UNCHANGED <<disk, version, tables, steady, changes, commands>>

\* DeleteBySHA: c and its descendants, without those another document holds.
Exclusive(c) ==
    LET below == Closure({c}, holds)
        kept == Closure({d \in Known \ {c} : d \notin below \/ doc[d].shown},
                        {r \in holds : r[2] # c})
    IN  (below \ kept) \intersect Known

Forget(c) ==
    /\ run.op = "forget"
    /\ run.at = "plan"
    /\ run' = [run EXCEPT !.at = "delete",
                          !.plan = IF c \in Known THEN Exclusive(c) ELSE {}]
    /\ UNCHANGED <<disk, version, tables, steady, changes, commands>>

\* Rows that name a deleted document go with it.
Without(S) ==
    /\ doc' = [c \in Contents |-> IF c \in S THEN NoDocument ELSE doc[c]]
    /\ job' = [c \in Contents |-> IF c \in S THEN "none" ELSE job[c]]
    /\ occ' = [p \in Paths |->
          IF occ[p].doc \in S
          THEN [doc |-> None, seen |-> FALSE, available |-> FALSE] ELSE occ[p]]
    /\ holds' = {r \in holds : {r[1], r[2]} \intersect S = {}}
    /\ members' = {r \in members : {r[1], r[2]} \intersect S = {}}

\* The operator agrees, or leaves everything as it is.
Delete ==
    /\ run.at = "delete"
    /\ Without(run.plan)
    /\ run' = Quiet
    /\ UNCHANGED <<disk, version, marker, steady, changes, commands>>
Decide ==
    /\ run.at = "delete"
    /\ run.op = "sweep"
    /\ run' = Quiet
    /\ UNCHANGED <<disk, version, tables, steady, changes, commands>>

Wipe ==
    /\ Idle
    /\ commands < MaxCommands
    /\ commands' = commands + 1
    /\ Without(Contents)
    /\ UNCHANGED <<disk, version, marker, run, steady, changes>>

-----------------------------------------------------------------------------
\* A new database, or one that was written before jobs and placements were
\* recorded: each document then has one container at most, its first.
LibraryInit ==
    /\ disk \in [Paths -> Contents \union {None}]
    /\ version = 1
    /\ \E old \in {{}, Legacy} :
          /\ \E status \in [Contents -> {"PENDING", "COMPLETED"}] :
                doc = [c \in Contents |->
                   IF c \notin old THEN NoDocument
                   ELSE IF Reads(c) = "declined" THEN Stub(c, FALSE)
                   ELSE [Stub(c, FALSE) EXCEPT !.status = status[c]]]
          /\ \E first \in [old -> old \union {None}] :
                /\ \A c \in old : first[c] # None => <<first[c], c>> \in PartPairs
                /\ holds = {<<first[c], c>> : c \in {d \in old : first[d] # None}}
    /\ job = [c \in Contents |-> "none"]
    /\ occ = [p \in Paths |-> [doc |-> None, seen |-> FALSE, available |-> FALSE]]
    /\ members = {}
    /\ marker = FALSE
    /\ run = Quiet
    /\ steady = {}
    /\ changes = 0
    /\ commands = 0

Work(c) == Park(c) \/ Decline(c) \/ Commit(c)
Scanning ==
    \/ \E p \in Paths : AdmitFile(p) \/ BindFile(p) \/ LoseFile(p)
    \/ FinishScan \/ FinishIncomplete
    \/ (\E c \in Contents : ResumeLegacy(c)) \/ ResumeSources
Closing == Tick \/ Again \/ Finish
Judging == Contain \/ Plan \/ Delete \/ Decide \/ \E c \in Contents : Forget(c)

LibraryNext ==
    \/ \E p \in Paths : Change(p) \/ DeferFile(p)
    \/ \E c \in Contents : Claim(c) \/ Work(c)
    \/ Ingest \/ Scanning \/ Closing
    \/ (\E op \in {"sweep", "forget"} : Command(op)) \/ Judging
    \/ Wipe \/ Stop \/ Upgrade

\* Commands run on, lanes claim and finish what is queued, and ingestion is
\* started again or listens.
LibraryFairness ==
    /\ WF_libraryVars(Ingest \/ Scanning \/ Closing \/ Judging)
    /\ \A c \in Contents : WF_libraryVars(Claim(c) \/ Work(c))
LibrarySpec == LibraryInit /\ [][LibraryNext]_libraryVars /\ LibraryFairness

-----------------------------------------------------------------------------
(* Properties.                                                             *)

LibraryTypeOK ==
    /\ disk \in [Paths -> Contents \union {None}]
    /\ version \in DOMAIN Route
    /\ doc \in [Contents -> Document]
    /\ job \in [Contents -> JobStages]
    /\ occ \in [Paths -> Occurrence]
    /\ holds \subseteq Known \X Known
    /\ members \subseteq holds
    /\ marker \in BOOLEAN
    /\ run.op \in {"none"} \union Ops
    /\ steady \subseteq Paths

SteadyFiles == {disk[p] : p \in steady} \ {None}

\* An original is marked missing only by a scan during which its file was not
\* there all the time: neither a deferred file nor a scan that was cut short
\* proves absence (Service.Scan, FinishScan).
AbsenceProven ==
    [][\A p \in steady :
          occ[p].available /\ occ[p].doc = disk[p] /\ occ'[p].doc = occ[p].doc
             => occ'[p].available]_libraryVars

\* Whatever happened before - upgrades, refusals, forgotten members, an old
\* database, interrupted commands - a sweep deletes no known document that a
\* file staged all the while holds through known containers, even where members
\* cannot be found again in the files (stagedContentsContext: re-expansion "is a
\* redundant second source rather than the authority").
SweepKeepsHeld ==
    [][run.op = "sweep" /\ Delete =>
          run.plan \intersect
          Closure(SteadyFiles, {r \in PartPairs : r[1] \in Known /\ r[2] \notin Ignored})
             = {}]_libraryVars

\* Forgetting a document deletes, besides it, only what nothing else that was
\* staged all the while holds (DeleteBySHA).
ForgetKeepsHeld ==
    [][run.op = "forget" /\ Delete /\ run.plan # {} =>
          \E c \in run.plan :
             run.plan \intersect
             Closure(SteadyFiles \ {c},
                     {r \in PartPairs : r[1] \in Known \ {c} /\ r[2] \notin Ignored \union {c}})
                = {}]_libraryVars

\* No command deletes a document that staged files hold in spite of it
\* (retention/reconcile.go, postgres/placement_repo.go, document_repo.go), and
\* what it deletes goes with all its rows: none is left pointing at it.
KeepsHeld == []LibraryTypeOK /\ SweepKeepsHeld /\ ForgetKeepsHeld

\* An ingestion whose scan was complete does not end with a job waiting for a
\* file that was there ever since that scan began, whenever the wait was decided
\* and recorded (drain).
NoMissedWait ==
    [][run.op = "ingest" /\ run.clean /\ Finish =>
          \A c \in SteadyFiles : job[c] # "waiting"]_libraryVars

\* A row without a job whose container has none either (see README).
Stuck ==
    \E r \in holds : \A c \in {r[1], r[2]} : doc[c].status = "PENDING" /\ job[c] = "none"

\* Read the way the current formats read it.
Current(c) ==
    IF Reads(c) = "declined" THEN doc[c].type = "declined"
    ELSE doc[c].status = "COMPLETED" /\ (doc[c].type = "text" => Reads(c) = "text")

\* Once files, versions and operators rest, every staged document is finished
\* the way the current formats read it, and the inventory is what is on disk: except
\* where an old database had rows that stay stuck, and nothing comes to be stuck.
UpToDate ==
    \A p \in Paths :
        IF disk[p] = None THEN ~occ[p].available
        ELSE occ[p].available /\ occ[p].doc = disk[p] /\ Current(disk[p])
CatchesUp == <>[](Stuck \/ UpToDate) /\ [][Stuck' => Stuck]_libraryVars
=============================================================================
