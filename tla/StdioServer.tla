---------------------------- MODULE StdioServer ----------------------------
(***************************************************************************)
(* One MCP session over stdin and stdout (internal/mcp/server.go): frames  *)
(* are accepted one at a time, tool calls run beside them so that a        *)
(* cancellation can reach one, and the end of the input or of the process  *)
(* cancels what is active, waits for it and closes the snapshot store.     *)
(*                                                                         *)
(* A request is named; what it asks and under which id the client sent it  *)
(* are constants, so that two requests can carry one id.                   *)
(***************************************************************************)
EXTENDS Naturals, Sequences

CONSTANTS Requests,    \* what the client may send, each at most once
          MethodOf,    \* [Requests -> {"initialize", "list", "call", "other"}]
          IdOf,        \* [Requests -> Ids]
          Ids

ASSUME SessionAssumption ==
    /\ MethodOf \in [Requests -> {"initialize", "list", "call", "other"}]
    /\ IdOf \in [Requests -> Ids]

VARIABLES toSend,      \* requests and notifications the client has left
          frames,      \* frames read and not yet accepted
          input,       \* stdin: open or at its end
          interrupted, \* the context of the process is done
          serving,     \* Serve: at its select, waiting for calls, or returned
          initialized, ready,
          seenIDs,
          call,        \* [Requests -> CallStates]
          cancelledCalls, \* calls whose context is done
          answers,     \* [Requests -> how often each kind of answer was written]
          snapshots    \* the snapshot store is open

sessionVars == <<toSend, frames, input, interrupted, serving, initialized,
                 ready, seenIDs, call, cancelledCalls, answers, snapshots>>

-----------------------------------------------------------------------------
\* retiring: answered or not, the entry of active is about to be deleted.
Kinds == {"result", "error"}
CallStates == {"none", "running", "answering", "retiring", "over"}
Active == {r \in Requests : call[r] \in {"running", "answering", "retiring"}}

Frame(what, about) == [what |-> what, about |-> about]
Notifications ==
    {Frame("initialized", CHOOSE r \in Requests : TRUE)}
        \union {Frame("cancelled", r) : r \in {q \in Requests : MethodOf[q] = "call"}}
Frames == {Frame("request", r) : r \in Requests} \union Notifications

SessionInit ==
    /\ toSend = Frames
    /\ frames = <<>>
    /\ input = "open"
    /\ interrupted = FALSE
    /\ serving = "select"
    /\ initialized = FALSE
    /\ ready = FALSE
    /\ seenIDs = {}
    /\ call = [r \in Requests |-> "none"]
    /\ cancelledCalls = {}
    /\ answers = [r \in Requests |-> [kind \in Kinds |-> 0]]
    /\ snapshots = TRUE

-----------------------------------------------------------------------------
ClientRests == UNCHANGED <<toSend, input, interrupted>>
ServerRests == UNCHANGED <<serving, initialized, ready, seenIDs, call,
                           cancelledCalls, answers, snapshots>>

\* The scanner passes lines on through a channel that buffers one.
ClientSends ==
    /\ input = "open"
    /\ Len(frames) < 2
    /\ \E f \in toSend :
          /\ toSend' = toSend \ {f}
          /\ frames' = Append(frames, f)
    /\ UNCHANGED <<input, interrupted>> /\ ServerRests

CloseInput ==
    /\ input = "open"
    /\ input' = "closed"
    /\ UNCHANGED <<toSend, frames, interrupted>> /\ ServerRests

Interrupt ==
    /\ ~interrupted
    /\ interrupted' = TRUE
    /\ UNCHANGED <<toSend, frames, input>> /\ ServerRests

Accepted(what, r) ==
    /\ serving = "select"
    /\ frames # <<>>
    /\ Head(frames) = Frame(what, r)
    /\ frames' = Tail(frames)
    /\ ClientRests
    /\ UNCHANGED <<serving, snapshots>>

AnsweredWith(r, kind) == answers' = [answers EXCEPT ![r][kind] = @ + 1]

UsedIDs == seenIDs

\* Every id is remembered for the session, and a second use refused.
AcceptDuplicate(r) ==
    /\ Accepted("request", r)
    /\ IdOf[r] \in UsedIDs
    /\ AnsweredWith(r, "error")
    /\ UNCHANGED <<initialized, ready, seenIDs, call, cancelledCalls>>

\* initialize succeeds once; the other methods need the client's word that it
\* is initialized; an unknown method is refused.
AcceptPlain(r) ==
    /\ Accepted("request", r)
    /\ IdOf[r] \notin UsedIDs
    /\ ~(MethodOf[r] = "call" /\ ready)
    /\ seenIDs' = seenIDs \union {IdOf[r]}
    /\ AnsweredWith(r, IF \/ MethodOf[r] = "initialize" /\ ~initialized
                          \/ MethodOf[r] = "list" /\ ready
                       THEN "result" ELSE "error")
    /\ initialized' = (initialized \/ MethodOf[r] = "initialize")
    /\ UNCHANGED <<ready, call, cancelledCalls>>

\* The goroutine of a call: its cancel function is registered before it runs.
LaunchToolCall(r) ==
    /\ Accepted("request", r)
    /\ IdOf[r] \notin UsedIDs
    /\ MethodOf[r] = "call"
    /\ ready
    /\ seenIDs' = seenIDs \union {IdOf[r]}
    /\ call' = [call EXCEPT ![r] = "running"]
    /\ UNCHANGED <<initialized, ready, cancelledCalls, answers>>

MarkReady(r) ==
    /\ Accepted("initialized", r)
    /\ ready' = (ready \/ initialized)
    /\ UNCHANGED <<initialized, seenIDs, call, cancelledCalls, answers>>

\* The notification names an id, and cancels the call active under it.
CancelCall(r) ==
    /\ Accepted("cancelled", r)
    /\ cancelledCalls' = cancelledCalls \union {q \in Active : IdOf[q] = IdOf[r]}
    /\ UNCHANGED <<initialized, ready, seenIDs, call, answers>>

Accept ==
    \E r \in Requests :
        \/ AcceptDuplicate(r) \/ AcceptPlain(r) \/ LaunchToolCall(r)
        \/ MarkReady(r) \/ CancelCall(r)

CallRests == UNCHANGED <<frames, serving, initialized, ready, seenIDs,
                         cancelledCalls, snapshots>> /\ ClientRests
CallMoves(r, from, to) == call[r] = from /\ call' = [call EXCEPT ![r] = to]

\* The tool returns; a call whose context is done is not answered.
ToolReturns(r) ==
    /\ CallMoves(r, "running",
                 IF r \in cancelledCalls \/ interrupted THEN "retiring" ELSE "answering")
    /\ UNCHANGED answers /\ CallRests

\* The context is not looked at again: a cancellation now is too late.
Reply(r) ==
    /\ CallMoves(r, "answering", "retiring")
    /\ \E kind \in Kinds : AnsweredWith(r, kind)
    /\ CallRests

Retire(r) ==
    /\ CallMoves(r, "retiring", "over")
    /\ UNCHANGED answers /\ CallRests

CallStep(r) == ToolReturns(r) \/ Reply(r) \/ Retire(r)

\* The end of the input, after the frames it left, or of the context.
ShutdownActive ==
    /\ serving = "select"
    /\ interrupted \/ (input = "closed" /\ frames = <<>>)
    /\ serving' = "stopping"
    /\ cancelledCalls' = cancelledCalls \union Active
    /\ UNCHANGED <<frames, initialized, ready, seenIDs, call, answers, snapshots>>
    /\ ClientRests

\* Mutant: the calls are cancelled, not waited for.
ReturnAtOnce ==
    /\ serving = "stopping"
    /\ serving' = "returned"
    /\ snapshots' = FALSE
    /\ UNCHANGED <<frames, initialized, ready, seenIDs, call, cancelledCalls, answers>>
    /\ ClientRests

ServeReturns ==
    /\ serving = "stopping"
    /\ Active = {}
    /\ serving' = "returned"
    /\ snapshots' = FALSE
    /\ UNCHANGED <<frames, initialized, ready, seenIDs, call, cancelledCalls, answers>>
    /\ ClientRests

SessionStep == Accept \/ ShutdownActive \/ ServeReturns

SessionOver == serving = "returned" /\ UNCHANGED sessionVars

SessionNext ==
    \/ ClientSends \/ CloseInput \/ Interrupt
    \/ SessionStep
    \/ \E r \in Requests : CallStep(r)
    \/ SessionOver

SessionSpec == SessionInit /\ [][SessionNext]_sessionVars

-----------------------------------------------------------------------------
(* Properties.                                                             *)

SessionTypeOK ==
    /\ toSend \subseteq Frames /\ frames \in Seq(Frames)
    /\ seenIDs \subseteq Ids /\ cancelledCalls \subseteq Requests
    /\ call \in [Requests -> CallStates]
    /\ answers \in [Requests -> [Kinds -> Nat]]
    /\ serving \in {"select", "stopping", "returned"}

\* No request is answered twice, no id ever gets a second result, whatever the
\* client sends twice, and once the snapshot store is closed no call is left
\* that could use it or write to the output (server.go, shutdownActive).
SessionSound ==
    /\ SessionTypeOK
    /\ \A r \in Requests : answers[r]["result"] + answers[r]["error"] <= 1
    /\ \A q, r \in Requests :
          IdOf[q] = IdOf[r] /\ answers[q]["result"] + answers[r]["result"] > 1 => q = r
    /\ ~snapshots => Active = {}

\* The end of the input or of the process ends the session, with calls under
\* way, cancelled or about to be (server.go, Serve).
SessionEnds == []<>(interrupted \/ input = "closed" => serving = "returned")
=============================================================================
