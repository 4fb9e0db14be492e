----------------------------- MODULE Snapshots -----------------------------
(***************************************************************************)
(* The evidence snapshots of the MCP server and the cursors that page      *)
(* through them (internal/mcp/snapshot.go; the search and read_evidence    *)
(* branches of QueryTool.dispatch, internal/mcp/tool.go).                  *)
(*                                                                         *)
(* A critical section of stateMu is one step; retrieval runs outside it.   *)
(* A page is a number: what fits on each is decided by the snapshot alone, *)
(* so that a result is known by its size and how many pages it makes.      *)
(***************************************************************************)
EXTENDS Naturals, FiniteSets, FiniteSetsExt, Functions

CONSTANTS Calls,         \* concurrent tool calls
          Ids,           \* result identities the random source can draw
          Results,       \* what retrieval can return
          Size,          \* encoded bytes of each
          Pages,         \* pages of each
          Unfit,         \* the page of each with an item too large, or 0
          MaxSnapshots,  \* eight in the code
          MaxBytes,      \* 2 MiB
          TTL,           \* ticks of the sliding expiry (ten minutes)
          MaxSearches    \* bound on searches

ASSUME SnapshotAssumption ==
    /\ Size \in [Results -> Nat \ {0}]
    /\ Pages \in [Results -> Nat \ {0}]
    /\ Unfit \in [Results -> Nat]
    /\ {MaxSnapshots, MaxBytes, TTL} \subseteq Nat \ {0}
    /\ MaxSearches \in Nat

VARIABLES snapshots,  \* stored results by identity
          cursors,    \* cursorState by token
          reserved,   \* identities of results on their way
          bytes,      \* encoded bytes stored, by the store's own account
          call,       \* where each call stands
          tokens,     \* tokens drawn: 192 random bits never repeat
          closed,     \* the server has shut down
          searches,   \* results delivered or refused so far
          given       \* history: what each token was given out for

vars == <<snapshots, cursors, reserved, bytes, call, tokens, closed, searches,
          given>>

-----------------------------------------------------------------------------
\* age: ticks since lastAccess; expires is lastAccess + TTL throughout.
\* search and idle are history: whose result it is, and the ticks since it
\* was last stored or read.
Snapshot == [result : Results, age : 0..TTL, search : 1..MaxSearches,
             idle : 0..TTL]
\* next: the token of the following page, 0 while none was asked for.
Cursor == [id : Ids, page : Nat \ {0}, next : Nat]
Idle == [at |-> "idle"]
Busy == {c \in Calls : call[c] # Idle}
Reserved == [at : {"reserved"}, id : Ids, result : Results]

Init ==
    /\ snapshots = <<>>
    /\ cursors = <<>>
    /\ reserved = {}
    /\ bytes = 0
    /\ call = [c \in Calls |-> Idle]
    /\ tokens = 0
    /\ closed = FALSE
    /\ searches = 0
    /\ given = <<>>

-----------------------------------------------------------------------------
(* The store.                                                              *)

Stored == DOMAIN snapshots
Weight == [i \in Stored |-> Size[snapshots[i].result]]
Total(S) == SumFunctionOnSet(Weight, S)

\* cleanupExpiredLocked and what is left after it.
Live == {i \in Stored : snapshots[i].age < TTL}

\* Mutant: cursors outlive their snapshot.
CursorsLeft(S) == cursors
\* removeSnapshotLocked takes a snapshot's cursors along.
CursorsOf(S) ==
    Restrict(cursors, {t \in DOMAIN cursors : cursors[t].id \in S})

BytesOf(S) == bytes - Total(Stored \ S)

\* The store once only the snapshots S are left in it.
Keep(S) ==
    /\ snapshots' = Restrict(snapshots, S)
    /\ cursors' = CursorsOf(S)
    /\ bytes' = BytesOf(S)

\* Mutant: the bound is noticed one snapshot late.
RoomForOneMore(S, r) ==
    Cardinality(S) <= MaxSnapshots /\ BytesOf(S) + Size[r] <= MaxBytes
Room(S, r) ==
    Cardinality(S) < MaxSnapshots /\ BytesOf(S) + Size[r] <= MaxBytes

\* evictOldestLocked until there is room: what can be left, oldest access
\* first, ties in any order.
Evicted(r) ==
    {K \in SUBSET Live :
        /\ Room(K, r) \/ K = {}
        /\ \A k \in K, e \in Live \ K : snapshots[k].age <= snapshots[e].age
        /\ K # Live =>
              \E e \in Live \ K :
                 /\ \A f \in Live \ K : snapshots[e].age <= snapshots[f].age
                 /\ ~Room(K \union {e}, r)}

-----------------------------------------------------------------------------
(* search.                                                                 *)

\* newResultID.
Fresh(i) == i \notin Stored /\ i \notin reserved

\* Retrieval has returned r, and it gets an identity.
Reserve(c, i, r) ==
    /\ call[c] = Idle
    /\ searches + Cardinality(Busy) < MaxSearches
    /\ Fresh(i)
    /\ reserved' = reserved \union {i}
    /\ call' = [call EXCEPT ![c] = [at |-> "reserved", id |-> i, result |-> r]]
    /\ UNCHANGED <<snapshots, cursors, bytes, tokens, closed, searches, given>>

\* The call is over and its identity no longer reserved.
LetGo(c) ==
    /\ call[c] # Idle
    /\ call' = [call EXCEPT ![c] = Idle]
    /\ searches' = searches + 1
    /\ reserved' = reserved \ {call[c].id}
    /\ UNCHANGED closed

\* The evidence cannot be built, or after a shutdown another call has stored
\* a result under the same identity.
Refuse(c) ==
    /\ LetGo(c)
    /\ UNCHANGED <<snapshots, cursors, bytes, tokens, given>>

TooLarge(c) ==
    /\ LetGo(c)
    /\ call[c].id \notin Stored
    /\ Size[call[c].result] > MaxBytes
    /\ Keep(Live)
    /\ UNCHANGED <<tokens, given>>

Added(S, i, r) ==
    [j \in S \union {i} |->
        IF j = i
        THEN [result |-> r, age |-> 0, search |-> searches + 1, idle |-> 0]
        ELSE snapshots[j]]

\* A result of one page is delivered whole and removed again; so is one whose
\* first page, or whose cursor, cannot be made.
StoreBriefly(c) ==
    LET r == call[c].result IN
    /\ LetGo(c)
    /\ call[c].id \notin Stored
    /\ Size[r] <= MaxBytes
    /\ Pages[r] = 1 \/ Unfit[r] = 1
    /\ \E K \in Evicted(r) : Keep(K)
    /\ UNCHANGED <<tokens, given>>

Store(c) ==
    LET r == call[c].result
        i == call[c].id IN
    /\ LetGo(c)
    /\ i \notin Stored
    /\ Size[r] <= MaxBytes
    /\ Pages[r] > 1
    /\ Unfit[r] # 1
    /\ tokens' = tokens + 1
    /\ given' = [t \in 1..tokens' |->
          IF t = tokens' THEN [search |-> searches', page |-> 2] ELSE given[t]]
    /\ \E K \in Evicted(r) :
          /\ snapshots' = Added(K, i, r)
          /\ bytes' = BytesOf(K) + Size[r]
          /\ cursors' = [t \in DOMAIN CursorsOf(K) \union {tokens'} |->
                IF t = tokens' THEN [id |-> i, page |-> 2, next |-> 0]
                ELSE cursors[t]]

-----------------------------------------------------------------------------
(* read_evidence.                                                          *)

\* Every page but the last names the one after it.
HasNext(t) == cursors[t].page < Pages[snapshots[cursors[t].id].result]
Fits(t) == Unfit[snapshots[cursors[t].id].result] # cursors[t].page
Valid(t) == t \in DOMAIN cursors /\ cursors[t].id \in Live

\* Mutant: the age is not reset.
Untouched(i) == [snapshots[i] EXCEPT !.idle = 0]
\* Access extends the expiry.
Touched(i) == [snapshots[i] EXCEPT !.age = 0, !.idle = 0]
Touch(i) == snapshots' = [j \in Live |-> IF j = i THEN Touched(j) ELSE snapshots[j]]

\* A cursor that is unknown by now, or a page that cannot be built: all that
\* happens is that expired snapshots go.
ReadRefused(t) ==
    /\ Valid(t) => ~Fits(t)
    /\ Keep(Live)
    /\ UNCHANGED <<reserved, call, tokens, closed, searches, given>>

\* Mutant: every read draws a new token.
AsksNew(t) == HasNext(t)
\* A token for the next page is drawn the first time it is needed.
NeedsToken(t) == HasNext(t) /\ cursors[t].next = 0

\* The position after page p.
PageAfter(p) == p + 1

\* The page t stands for is there, and so is the token of the one after it.
Turn(t) ==
    /\ Valid(t)
    /\ bytes' = BytesOf(Live)
    /\ IF NeedsToken(t)
       THEN /\ tokens' = tokens + 1
            /\ cursors' = [u \in DOMAIN CursorsOf(Live) \union {tokens'} |->
                 CASE u = tokens' -> [id |-> cursors[t].id, next |-> 0,
                                      page |-> PageAfter(cursors[t].page)]
                   [] u = t -> [cursors[t] EXCEPT !.next = tokens']
                   [] OTHER -> cursors[u]]
            /\ given' = [u \in 1..tokens' |->
                 IF u = tokens'
                 THEN [given[t] EXCEPT !.page = @ + 1] ELSE given[u]]
       ELSE /\ cursors' = CursorsOf(Live)
            /\ UNCHANGED <<tokens, given>>
    /\ UNCHANGED <<reserved, call, closed, searches>>

Read(t) ==
    /\ Turn(t)
    /\ Fits(t)
    /\ Touch(cursors[t].id)

\* The page was built but is too large once it names the next: the token stays,
\* the expiry is not extended.
ReadOversized(t) ==
    /\ Turn(t)
    /\ ~Fits(t)
    /\ HasNext(t)
    /\ snapshots' = Restrict(snapshots, Live)

-----------------------------------------------------------------------------
\* closeSnapshots, which an HTTP server whose drain timed out calls while
\* calls are still running.
Close ==
    /\ ~closed
    /\ closed' = TRUE
    /\ snapshots' = <<>>
    /\ cursors' = <<>>
    /\ reserved' = {}
    /\ bytes' = 0
    /\ UNCHANGED <<call, tokens, searches, given>>

Tick ==
    /\ \E i \in Stored : snapshots[i].idle < TTL
    /\ snapshots' = [i \in Stored |->
          [snapshots[i] EXCEPT !.age = Min({@ + 1, TTL}),
                               !.idle = Min({@ + 1, TTL})]]
    /\ UNCHANGED <<cursors, reserved, bytes, call, tokens, closed, searches,
                   given>>

CallStep(c) ==
    \/ \E i \in Ids, r \in Results : Reserve(c, i, r)
    \/ Refuse(c) \/ TooLarge(c) \/ StoreBriefly(c) \/ Store(c)

Next ==
    \/ \E c \in Calls : CallStep(c)
    \/ \E t \in 1..tokens : Read(t) \/ ReadOversized(t) \/ ReadRefused(t)
    \/ Close
    \/ Tick

Spec == Init /\ [][Next]_vars

-----------------------------------------------------------------------------
(* Properties.                                                             *)

TypeOK ==
    /\ Stored \subseteq Ids
    /\ \A i \in Stored : snapshots[i] \in Snapshot
    /\ DOMAIN cursors \subseteq 1..tokens
    /\ \A t \in DOMAIN cursors : cursors[t] \in Cursor
    /\ reserved \subseteq Ids
    /\ bytes \in Nat
    /\ call \in [Calls -> Reserved \union {Idle}]
    /\ tokens \in Nat
    /\ closed \in BOOLEAN
    /\ searches \in Nat
    /\ given \in [1..tokens -> [search : Nat, page : Nat]]

\* The store's own account of its bytes is exact after every expiry, eviction,
\* refusal and shutdown, and neither bound is ever exceeded: "retains at most
\* eight snapshots and 2 MiB" (docs/mcp.md; snapshot.go, storeSearchResult).
WithinBounds ==
    /\ TypeOK
    /\ bytes = Total(Stored)
    /\ bytes <= MaxBytes
    /\ Cardinality(Stored) <= MaxSnapshots

\* A cursor serves the page it was given out for, of the result it was given
\* out for, or nothing: also when that result's identity has been drawn again
\* (snapshot.go, readEvidencePage and removeSnapshotLocked).
Faithful ==
    \A t \in DOMAIN cursors :
        LET i == cursors[t].id IN
        /\ i \in Stored
        /\ given[t] = [search |-> snapshots[i].search, page |-> cursors[t].page]

\* However often and concurrently a cursor is read, its successor is the same:
\* a snapshot has one cursor per page ("idempotent on retry", docs/mcp.md).
\* References of two results are never confused: until shutdown an identity
\* belongs to one call or one snapshot, and none stays reserved by a call that
\* failed (snapshot.go, newResultID and releaseResultID).
OneChain ==
    /\ \A t, u \in DOMAIN cursors :
          /\ cursors[t].id = cursors[u].id
          /\ cursors[t].page = cursors[u].page
          => t = u
    /\ ~closed => /\ reserved = {call[c].id : c \in Busy}
                  /\ reserved \intersect Stored = {}
                  /\ Cardinality(reserved) = Cardinality(Busy)

\* A snapshot that goes before shutdown had not been used for its whole expiry,
\* or none that stays had been unused for longer: reading protects a result
\* (docs/mcp.md: "sliding TTL and least-recently-used memory eviction").
Lost == {i \in Stored : i \notin DOMAIN snapshots'
                        \/ snapshots'[i].search # snapshots[i].search}
LeastRecentlyUsed ==
    [][~closed' => \A i \in Lost : \/ snapshots[i].idle >= TTL
                                  \/ \A k \in Stored \ Lost :
                                        snapshots[k].idle <= snapshots[i].idle]_vars
=============================================================================
