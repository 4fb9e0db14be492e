----------------------------- MODULE Admission -----------------------------
(***************************************************************************)
(* Admission of the same bytes by several transactions at once: CreateStub *)
(* (internal/storage/postgres/document_repo.go) under the e-mail handler's *)
(* loop over a container's members (Handle, withoutIgnored, admissionOrder *)
(* and dispatchChild, internal/worker/email_worker.go) and under the       *)
(* scan's admission of one file after another (Service.Scan and admit,     *)
(* internal/discovery/service.go).                                         *)
(*                                                                         *)
(* A statement is a step.  A stub that is not committed yet is seen by     *)
(* nobody but its own transaction, and an insert of the same bytes waits   *)
(* for that transaction to end.                                            *)
(***************************************************************************)
EXTENDS Naturals, Sequences, FiniteSets, Functions

CONSTANTS Handlers, \* e-mails and archives whose handlers run concurrently
          Scan,       \* the scan, which admits files one by one
          Bytes,   \* distinct member and file contents
          Listed,     \* the members of each container, and the scan's files,
                      \* in the order they are found
          Omitted,    \* contents seen only under names the workspace ignores
          Hash,       \* the order of the contents' hashes
          MaxRollbacks

Actors == Handlers \union {Scan}

ASSUME AdmissionAssumption ==
    /\ IsFiniteSet(Handlers)
    /\ Scan \notin Handlers
    /\ {"none", "committed"} \intersect Actors = {}
    /\ Listed \in [Actors -> Seq(Bytes)]
    /\ Omitted \subseteq Bytes
    /\ Hash \in Injection(Bytes, Nat)
    /\ MaxRollbacks \in Nat

VARIABLES stub,      \* documents by raw_sha256: who inserts it, or committed
          published, \* transactions that dispatched each content and committed
          held,     \* committed members and placements
          actor,     \* each actor's transaction
          rollbacks  \* transactions rolled back so far

admissionVars == <<stub, published, held, actor, rollbacks>>

-----------------------------------------------------------------------------
\* read: CreateStub's first look; insert: the row was not there; reread: the
\* insert found it committed after all; over: every member was admitted.
Progress == [at : {"read", "insert", "reread", "over"}, next : Nat,
             created : SUBSET Bytes]
Fresh(n) == [at |-> "read", next |-> n, created |-> {}]

AdmissionInit ==
    /\ stub = [c \in Bytes |-> "none"]
    /\ published = [c \in Bytes |-> {}]
    /\ held = {}
    /\ actor = [a \in Actors |-> Fresh(1)]
    /\ rollbacks = 0

\* Mutant: members are admitted in the order the message lists them.
ListingOrder == [a \in Actors |-> SelectSeq(Listed[a], LAMBDA c : c \notin Omitted)]

\* The members that are not ignored, by position, and those whose content
\* comes before c in hash order, or not after it.
Members(a) == {i \in DOMAIN Listed[a] : Listed[a][i] \notin Omitted}
Before(a, c) == {i \in Members(a) : Hash[Listed[a][i]] < Hash[c]}
UpTo(a, c) == {i \in Members(a) : Hash[Listed[a][i]] <= Hash[c]}

\* A container's members without the ignored ones, in ascending hash order (the
\* k-th has fewer than k before it); the scan's files in the order of the walk.
Order == [a \in Actors |->
    IF a = Scan THEN Listed[a]
    ELSE [k \in 1..Cardinality(Members(a)) |->
            CHOOSE c \in Bytes : /\ Cardinality(Before(a, c)) < k
                                 /\ k <= Cardinality(UpTo(a, c))]]

Admitting(a) == actor[a].next <= Len(Order[a]) /\ actor[a].at # "over"
Due(a) == Order[a][actor[a].next]
Seen(a, c) == stub[c] \in {"committed", a}

\* Member by member: the handler admits all in one transaction, the scan each
\* in one of its own.
Admitted(a, made) ==
    actor' = [actor EXCEPT
        ![a] = IF a # Scan /\ @.next < Len(Order[a])
               THEN [at |-> "read", next |-> @.next + 1, created |-> made]
               ELSE [at |-> "over", next |-> @.next, created |-> made]]

\* Known content is linked, never written.
ReadStub(a) ==
    /\ Admitting(a)
    /\ actor[a].at = "read"
    /\ IF Seen(a, Due(a))
       THEN Admitted(a, actor[a].created)
       ELSE actor' = [actor EXCEPT ![a].at = "insert"]
    /\ UNCHANGED <<stub, published, held, rollbacks>>

\* Mutant: the loser of the race takes the stub for its own.
TakesConflict(a) ==
    /\ actor[a].at = "insert"
    /\ stub[Due(a)] = "committed"
    /\ Admitted(a, actor[a].created \union {Due(a)})
    /\ UNCHANGED <<stub, published, held, rollbacks>>

\* ON CONFLICT DO NOTHING inserted no row: another admission committed.
Conflict(a) ==
    /\ actor[a].at = "insert"
    /\ stub[Due(a)] = "committed"
    /\ actor' = [actor EXCEPT ![a].at = "reread"]
    /\ UNCHANGED <<stub, published, held, rollbacks>>

\* The row is new: its status and its job follow in the same transaction.
InsertStub(a) ==
    /\ actor[a].at = "insert"
    /\ stub[Due(a)] = "none"
    /\ stub' = [stub EXCEPT ![Due(a)] = a]
    /\ Admitted(a, actor[a].created \union {Due(a)})
    /\ UNCHANGED <<published, held, rollbacks>>

Reread(a) ==
    /\ actor[a].at = "reread"
    /\ Seen(a, Due(a))
    /\ Admitted(a, actor[a].created)
    /\ UNCHANGED <<stub, published, held, rollbacks>>

\* Mutant: the commit links only the members the handler created.
CommitCreated(a) ==
    /\ actor[a].at = "over"
    /\ stub' = [c \in Bytes |-> IF stub[c] = a THEN "committed" ELSE stub[c]]
    /\ published' = [c \in Bytes |->
          IF c \in actor[a].created THEN published[c] \union {a} ELSE published[c]]
    /\ held' = held \union ({a} \X actor[a].created)
    /\ actor' = [actor EXCEPT ![a] = Fresh(@.next + 1)]
    /\ UNCHANGED rollbacks

\* Stubs, jobs, members and placements together.
CommitAdmission(a) ==
    /\ actor[a].at = "over"
    /\ stub' = [c \in Bytes |-> IF stub[c] = a THEN "committed" ELSE stub[c]]
    /\ published' = [c \in Bytes |->
          IF c \in actor[a].created THEN published[c] \union {a} ELSE published[c]]
    /\ held' = held \union
          {<<a, Order[a][i]>> : i \in {j \in 1..actor[a].next :
                                          a # Scan \/ j = actor[a].next}}
    /\ actor' = [actor EXCEPT ![a] = Fresh(@.next + 1)]
    /\ UNCHANGED rollbacks

\* A crash, a cancellation or an error: nothing of it remains, and the job is
\* claimed again, or the next scan reads the file again.
RollBack(a) ==
    /\ Admitting(a) \/ actor[a].at = "over"
    /\ rollbacks < MaxRollbacks
    /\ rollbacks' = rollbacks + 1
    /\ stub' = [c \in Bytes |-> IF stub[c] = a THEN "none" ELSE stub[c]]
    /\ actor' = [actor EXCEPT ![a] = Fresh(IF a = Scan THEN @.next ELSE 1)]
    /\ UNCHANGED <<published, held>>

AdmissionStep(a) ==
    \/ ReadStub(a) \/ Conflict(a) \/ InsertStub(a) \/ Reread(a)
    \/ CommitAdmission(a)

AllAdmitted ==
    /\ \A a \in Actors : ~Admitting(a) /\ actor[a].at # "over"
    /\ UNCHANGED admissionVars

AdmissionNext == (\E a \in Actors : AdmissionStep(a) \/ RollBack(a)) \/ AllAdmitted

\* A transaction goes on unless it waits; a wait ends with the transaction it
\* is for.
AdmissionFairness == \A a \in Actors : WF_admissionVars(AdmissionStep(a))
AdmissionSpec == AdmissionInit /\ [][AdmissionNext]_admissionVars /\ AdmissionFairness

-----------------------------------------------------------------------------
(* Properties.                                                             *)

AdmissionTypeOK ==
    /\ stub \in [Bytes -> {"none", "committed"} \union Actors]
    /\ published \in [Bytes -> SUBSET Actors]
    /\ held \subseteq Actors \X Bytes
    /\ actor \in [Actors -> Progress]
    /\ rollbacks \in 0..MaxRollbacks

\* Whom a waits for: the transaction that is inserting the same bytes.
Blocker(a) ==
    IF actor[a].at = "insert" THEN {stub[Due(a)]} \ {"none", "committed"} ELSE {}

\* No set of admissions ever waits in a circle: two messages that share
\* attachments in opposite orders never deadlock (admissionOrder).
NoAdmissionCycle ==
    \A C \in (SUBSET Actors) \ {{}} : \E a \in C : Blocker(a) \intersect C = {}

\* However many transactions race to admit the same bytes, exactly one of those
\* that commit dispatches work for the document, and the bytes are a document
\* from that commit on (CreateStub, dispatchChild).
DispatchedOnce ==
    /\ AdmissionTypeOK
    /\ \A c \in Bytes :
          /\ \A a, b \in published[c] : a = b
          /\ (published[c] # {}) = (stub[c] = "committed")

\* Every container comes to hold each of its members, known ones included, and
\* none that is ignored: only a recorded containment keeps a shared attachment
\* from the sweep (dispatchChild).
MembersKept == \A a \in Handlers : \A c \in Range(Listed[a]) :
    (c \notin Omitted) = (<<a, c>> \in held)
EveryMemberHeld == <>[]MembersKept
=============================================================================
