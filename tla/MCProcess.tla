----------------------------- MODULE MCProcess -----------------------------
(***************************************************************************)
(* What goes on in and around one process, side by side: the lease of one  *)
(* claim, one finite run of the pipeline, one MCP session, the daemons of  *)
(* one workspace; and what bounds its work: the worker pools and their     *)
(* gate, the embedding client's breaker, the readers of pages and their    *)
(* slots, and the layout of a page.  `part' says which of them a behaviour *)
(* is about.                                                               *)
(*                                                                         *)
(* Pipeline: an e-mail whose text becomes one embedding job.  Session: two *)
(* calls that the client sent under one id, and the initialization.        *)
(* Pools: two compete for a gate smaller than their lanes: one lane whose  *)
(* handler runs wholly inside its transaction, two that prepare first.     *)
(* Breaker: three callers, two of them at a time.  Pages: a scan of two    *)
(* pages beside a digital page or an image, two slots.                     *)
(***************************************************************************)
EXTENDS Lease, Pipeline, StdioServer, Daemon, Breaker, WorkerPools, Pages, MCLayout, TLC

CONSTANTS email, embed, mail, text, init, call1, call2, id1, id2,
          office, o1, e1, e2, a1, a2, a3, sheet1, sheet2

MCSubjectOf == mail :> email @@ text :> embed
MCChildrenOf == mail :> {text} @@ text :> {}
MCMethodOf == init :> "initialize" @@ call1 :> "call" @@ call2 :> "call"
MCIdOf == init :> id1 @@ call1 :> id2 @@ call2 :> id2

MCPoolOf == o1 :> office @@ e1 :> embed @@ e2 :> embed
Sheet(kind, n, layer) == [kind |-> kind, pages |-> n, layer |-> layer]
MCShapes == sheet1 :> {Sheet("scan", 2, 1)} @@ sheet2 :> {Sheet("digital", 1, 1), Sheet("image", 0, 0)}

VARIABLE part

leaseRests == UNCHANGED leaseVars
runRests == UNCHANGED <<pipelineVars, sessionVars, daemonVars>>
workRests == UNCHANGED <<poolVars, vars, pagesVars, layoutVars>>
allVars == <<part, leaseVars, pipelineVars, sessionVars, daemonVars, poolVars, vars,
             pagesVars, layoutVars>>

MCInit ==
    /\ part \in {"lease", "pipeline", "session", "daemon", "pools", "breaker", "pages", "layout"}
    /\ LeaseInit /\ PipelineInit /\ SessionInit /\ DaemonInit
    /\ PoolInit /\ Init /\ PagesInit
    /\ part # "lease" => began = 0
    /\ part # "pipeline" => conn = "up"
    /\ part # "pages" => available /\ shape[sheet2].kind = "image"
    /\ \E page \in IF part = "layout" THEN MCSheets ELSE {Scan(<<2>>, 0, 0)} : LayoutInit(page)

MCNext ==
    /\ UNCHANGED part
    /\ \/ part = "lease" /\ LeaseNext /\ runRests /\ workRests
       \/ part = "pipeline" /\ PipelineNext
          /\ leaseRests /\ UNCHANGED <<sessionVars, daemonVars>> /\ workRests
       \/ part = "session" /\ SessionNext
          /\ leaseRests /\ UNCHANGED <<pipelineVars, daemonVars>> /\ workRests
       \/ part = "daemon" /\ DaemonNext
          /\ leaseRests /\ UNCHANGED <<pipelineVars, sessionVars>> /\ workRests
       \/ part = "pools" /\ PoolNext
          /\ leaseRests /\ runRests /\ UNCHANGED <<vars, pagesVars, layoutVars>>
       \/ part = "breaker" /\ Next
          /\ leaseRests /\ runRests /\ UNCHANGED <<poolVars, pagesVars, layoutVars>>
       \/ part = "pages" /\ PagesNext
          /\ leaseRests /\ runRests /\ UNCHANGED <<poolVars, vars, layoutVars>>
       \/ part = "layout" /\ LayoutNext
          /\ leaseRests /\ runRests /\ UNCHANGED <<poolVars, vars, pagesVars>>

\* Goroutines of the pipeline run, and its waits end by their timers; a first
\* signal is followed by the end of the grace period, but nobody has to send
\* one.  Serve keeps accepting, and a tool call returns: models and queries
\* have deadlines and follow their context.  The client does what it likes.
\* Breaker: as FairSpec.
MCSpec ==
    /\ MCInit
    /\ [][MCNext]_allVars
    /\ \A s \in Subjects : WF_pipelineVars(part = "pipeline" /\ PoolStep(s))
    /\ WF_pipelineVars(part = "pipeline" /\ \E j \in Jobs : ComesDue(j))
    /\ WF_pipelineVars(part = "pipeline" /\ MainStep)
    /\ WF_pipelineVars(part = "pipeline" /\ signals = 1 /\ Signal)
    /\ WF_sessionVars(part = "session" /\ SessionStep)
    /\ WF_sessionVars(part = "session" /\ \E r \in Requests : CallStep(r))
    /\ \A c \in Callers :
          /\ WF_vars(part = "breaker" /\ Ask(c))
          /\ WF_vars(/\ part = "breaker"
                     /\ Allow(c) \/ Send(c) \/ Answered(c) \/ Failed(c) \/ Leave(c))
    /\ SF_vars(part = "breaker" /\ \E c \in Callers : Enter(c))
    /\ SF_vars(part = "breaker" /\ Tick)

\* A run of the pipeline ends (RunEnds), and so does a session whose input or
\* process ended (SessionEnds).
RunsEnd == <>[](part = "pipeline" => main = "ended") /\ SessionEnds

\* Nobody is ever stuck: PoolsMove and PagesMove, and whoever they say can move has
\* a step.
NobodyStuck ==
    /\ PoolsMove /\ PagesMove
    /\ stopping => \A p \in Pools : LoopMoves(p) => ENABLED LoopStep(p)
    /\ stopping => \A l \in Lanes : LaneMoves(l) => ENABLED LaneStep(l)
    /\ \A d \in Sheets :
          /\ HandlerMoves(d) => ENABLED HandlerStep(d)
          /\ \A p \in Of(d) : TaskMoves(d, p) => ENABLED TaskStep(d, p)
=============================================================================
