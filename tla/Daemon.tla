------------------------------- MODULE Daemon -------------------------------
(***************************************************************************)
(* The MCP HTTP daemons of one workspace and the commands that start, stop *)
(* and look at them through one PID file (internal/cli/mcp.go), with the   *)
(* listener and the graceful shutdown of internal/mcp/http.go.             *)
(*                                                                         *)
(* Every command and every daemon that starts looks at the file the same   *)
(* way: it reads it, asks whether the process it names is alive, and       *)
(* removes the file when it is not: three steps, and nothing locks them.   *)
(* Process ids are not reused.  The commands of one workspace run on one   *)
(* configuration, so all daemons want the same address.                    *)
(***************************************************************************)
EXTENDS Naturals, FiniteSets

CONSTANTS Daemons,    \* the processes mcp start can fork
          Commands,   \* the mcp start, stop and status that may be given
          MaxKills,   \* bound on daemons killed
          NoFile, Torn, NoPid

ASSUME DaemonAssumption ==
    /\ Daemons \intersect Commands = {}
    /\ {NoFile, Torn, NoPid} \intersect (Daemons \union Commands) = {}
    /\ MaxKills \in Nat

VARIABLES pidFile,   \* a pid, Torn while it is being written, or NoFile
          daemon,    \* [Daemons -> DaemonStates]
          term,      \* daemons that were sent SIGTERM
          port,      \* who listens
          command,   \* [Commands -> [does, at, about]]
          look,      \* the look each process is in the middle of
          contested, \* history: daemons that wrote the file while somebody
                     \* else was Committed to change it
          kills

daemonVars == <<pidFile, daemon, term, port, command, look, contested, kills>>

-----------------------------------------------------------------------------
\* cleaning: Serve has returned, its deferred removal is next; leaving: it ran,
\* the database and the logs are being closed.
DaemonStates == {"unborn", "booting", "create", "write", "recorded", "serving",
                 "draining", "cleaning", "leaving", "gone"}
Alive == {d \in Daemons : daemon[d] \notin {"unborn", "gone"}}
Lookers == Daemons \union Commands

NoLook == [at |-> "none", saw |-> NoPid]
NotGiven == [does |-> "none", at |-> "none", about |-> NoPid]

\* p may yet remove or rewrite the file without reading it again.
Committed(p) ==
    \/ look[p].at \in {"probe", "unlink"}
    \/ /\ p \in Daemons
       /\ \/ daemon[p] = "booting" /\ look[p].at = "seen" /\ look[p].saw = NoPid
          \/ daemon[p] \in {"create", "write", "recorded", "serving", "draining", "cleaning"}

DaemonInit ==
    /\ pidFile = NoFile
    /\ daemon = [d \in Daemons |-> "unborn"]
    /\ term = {}
    /\ port = NoPid
    /\ command = [c \in Commands |-> NotGiven]
    /\ look = [p \in Lookers |-> NoLook]
    /\ contested = {}
    /\ kills = 0

-----------------------------------------------------------------------------
(* readLivePID.                                                            *)

SetLook(p, place, pid) == look' = [look EXCEPT ![p] = [at |-> place, saw |-> pid]]

\* A file that is missing or half written names nobody.
Looks(p) ==
    /\ look[p].at = "none"
    /\ IF pidFile \in Daemons THEN SetLook(p, "probe", pidFile)
       ELSE SetLook(p, "seen", NoPid)

\* Mutant: whatever the probe says, the file goes.
ProbesAndRemoves(p) ==
    /\ look[p].at = "probe"
    /\ SetLook(p, "unlink", look[p].saw)

Probes(p) ==
    /\ look[p].at = "probe"
    /\ IF look[p].saw \in Alive THEN SetLook(p, "seen", look[p].saw)
       ELSE SetLook(p, "unlink", NoPid)

\* Whatever the file holds by now.
Unlinks(p) ==
    /\ look[p].at = "unlink"
    /\ pidFile' = NoFile
    /\ SetLook(p, "seen", look[p].saw)

LookStep(p) ==
    /\ \/ Probes(p) /\ UNCHANGED pidFile
       \/ Unlinks(p)
    /\ UNCHANGED <<daemon, term, port, command, contested, kills>>

BeginsLook(p) ==
    /\ Looks(p)
    /\ UNCHANGED <<pidFile, daemon, term, port, command, contested, kills>>

\* The look is over and its outcome used.
Saw(p, pid) ==
    /\ look[p].at = "seen"
    /\ look[p].saw = pid
    /\ look' = [look EXCEPT ![p] = NoLook]

-----------------------------------------------------------------------------
(* The commands.                                                           *)

Give(c, does) ==
    /\ command[c].at = "none"
    /\ command' = [command EXCEPT ![c] = [does |-> does, at |-> "look", about |-> NoPid]]
    /\ UNCHANGED <<pidFile, daemon, term, port, look, contested, kills>>

Goes(c, place, pid) ==
    command' = [command EXCEPT ![c].at = place, ![c].about = pid]

CommandLooks(c) == command[c].at \in {"look", "confirm", "await"} /\ BeginsLook(c)

\* start: refused if one is alive, else it forks a child and waits for a pid.
Fork(c) ==
    /\ command[c].does = "start" /\ command[c].at = "look"
    /\ Saw(c, NoPid)
    /\ \E d \in Daemons :
          /\ daemon[d] = "unborn"
          /\ daemon' = [daemon EXCEPT ![d] = "booting"]
          /\ Goes(c, "confirm", d)
    /\ UNCHANGED <<pidFile, term, port, contested, kills>>

\* stop: the process the file names gets SIGTERM, and is waited for.
Terminate(c) ==
    /\ command[c].does = "stop" /\ command[c].at = "look"
    /\ \E d \in Daemons :
          /\ Saw(c, d)
          /\ term' = term \union ({d} \intersect Alive)
          /\ Goes(c, IF d \in Alive THEN "await" ELSE "done", d)
    /\ UNCHANGED <<pidFile, daemon, port, contested, kills>>

\* The look answers the command, or it is repeated until its time is up.
Concludes(c) ==
    /\ \E pid \in Daemons \union {NoPid} :
          /\ Saw(c, pid)
          /\ \/ /\ command[c].at = "look"
                /\ \/ command[c].does = "status"
                   \/ command[c].does = "start" /\ pid # NoPid
                   \/ command[c].does = "stop" /\ pid = NoPid
                /\ Goes(c, "done", pid)
             \/ /\ command[c].at = "confirm"
                /\ \/ pid # NoPid /\ Goes(c, "started", pid)
                   \/ pid = NoPid /\ (Goes(c, "done", pid) \/ UNCHANGED command)
             \/ /\ command[c].at = "await"
                /\ \/ Goes(c, "done", command[c].about)
                   \/ pid # NoPid /\ UNCHANGED command
    /\ UNCHANGED <<pidFile, daemon, term, port, contested, kills>>

CommandStep(c) ==
    \/ CommandLooks(c) \/ LookStep(c) \/ Fork(c) \/ Terminate(c)
    \/ Concludes(c)

-----------------------------------------------------------------------------
(* A daemon, runMCPHTTPServer and HTTPServer.Serve.                        *)

Becomes(d, from, to) ==
    daemon[d] = from /\ daemon' = [daemon EXCEPT ![d] = to]
OthersRest == UNCHANGED <<term, command, contested, kills>>

\* Flags, logs, database: any of them may fail.
BootFails(d) ==
    /\ look[d].at = "none"
    /\ Becomes(d, "booting", "gone")
    /\ UNCHANGED <<pidFile, port, look>> /\ OthersRest

DaemonLooks(d) == daemon[d] = "booting" /\ BeginsLook(d)

Refused(d) ==
    /\ \E other \in Daemons : Saw(d, other)
    /\ Becomes(d, "booting", "gone")
    /\ UNCHANGED <<pidFile, port>> /\ OthersRest

Free(d) ==
    /\ Saw(d, NoPid)
    /\ Becomes(d, "booting", "create")
    /\ UNCHANGED <<pidFile, port>> /\ OthersRest

\* writePIDFile truncates, then writes.
Truncates(d) ==
    /\ Becomes(d, "create", "write")
    /\ pidFile' = Torn
    /\ UNCHANGED <<port, look>> /\ OthersRest

Writes(d) ==
    /\ Becomes(d, "write", "recorded")
    /\ pidFile' = d
    /\ contested' = contested \union {e \in {d} : \E p \in Lookers \ {d} : Committed(p)}
    /\ UNCHANGED <<term, port, command, look, kills>>

\* Two daemons cannot listen on one address, and it can fail otherwise too.
Listens(d) ==
    /\ \/ port = NoPid /\ Becomes(d, "recorded", "serving") /\ port' = d
       \/ Becomes(d, "recorded", "cleaning") /\ UNCHANGED port
    /\ UNCHANGED <<pidFile, look>> /\ OthersRest

\* Shutdown closes the listener first and then waits for the requests.
ShutsDown(d) ==
    /\ d \in term
    /\ Becomes(d, "serving", "draining")
    /\ port' = NoPid
    /\ UNCHANGED <<pidFile, look>> /\ OthersRest

DrainsRequests(d) ==
    /\ Becomes(d, "draining", "cleaning")
    /\ UNCHANGED <<pidFile, port, look>> /\ OthersRest

\* The deferred removal does not ask whose pid the file holds.
RemovesPid(d) ==
    /\ Becomes(d, "cleaning", "leaving")
    /\ pidFile' = NoFile
    /\ UNCHANGED <<port, look>> /\ OthersRest

Exits(d) ==
    /\ Becomes(d, "leaving", "gone")
    /\ UNCHANGED <<pidFile, port, look>> /\ OthersRest

DaemonStep(d) ==
    \/ BootFails(d) \/ DaemonLooks(d) \/ LookStep(d) \/ Refused(d) \/ Free(d)
    \/ Truncates(d) \/ Writes(d) \/ Listens(d) \/ ShutsDown(d)
    \/ DrainsRequests(d) \/ RemovesPid(d) \/ Exits(d)

\* The file survives its process.
Killed(d) ==
    /\ d \in Alive
    /\ kills < MaxKills
    /\ kills' = kills + 1
    /\ daemon' = [daemon EXCEPT ![d] = "gone"]
    /\ port' = IF port = d THEN NoPid ELSE port
    /\ look' = [look EXCEPT ![d] = NoLook]
    /\ UNCHANGED <<pidFile, term, command, contested>>

\* Nobody has to give a command.
Nothing == UNCHANGED daemonVars

DaemonNext ==
    \/ \E c \in Commands : \E does \in {"start", "stop", "status"} : Give(c, does)
    \/ \E c \in Commands : CommandStep(c)
    \/ \E d \in Daemons : DaemonStep(d) \/ Killed(d)
    \/ Nothing

DaemonSpec == DaemonInit /\ [][DaemonNext]_daemonVars

-----------------------------------------------------------------------------
(* Properties.                                                             *)

DaemonTypeOK ==
    /\ pidFile \in Daemons \union {NoFile, Torn}
    /\ daemon \in [Daemons -> DaemonStates]
    /\ port \in Daemons \union {NoPid}
    /\ term \subseteq Daemons

\* A daemon that nobody contested when it wrote the PID file stays the one that
\* mcp stop and mcp status find until it removes the file itself, whatever is
\* given, started or killed meanwhile (readLivePID keeps the file of a live one).
ServingIsRecorded ==
    /\ DaemonTypeOK
    /\ \A d \in Daemons :
          daemon[d] \in {"recorded", "serving", "draining"} /\ d \notin contested =>
              pidFile = d

\* Of every daemon: once it serves and nothing else is going on, the file names
\* it (mcp.go, mcpPIDPath: "so mcp stop/status can find it later").
Settled(d) ==
    /\ daemon[d] = "serving"
    /\ Alive = {d}
    /\ \A p \in Lookers : look[p] = NoLook
=============================================================================
