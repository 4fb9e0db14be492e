----------------------------- MODULE Passages -----------------------------
(***************************************************************************)
(* Passages shared between documents: ReplaceChunks                        *)
(* (internal/storage/postgres/chunk_repo.go), which stores the passages of *)
(* a document that was embedded, and reset (document_repo.go), with which  *)
(* a scan takes an indexed document's passages away while workers embed    *)
(* others.                                                                 *)
(*                                                                         *)
(* Both are transactions of several statements at READ COMMITTED, so a     *)
(* step here is what one statement does to one row: see it, wait for the   *)
(* transaction that is changing it, insert, lock or delete it.  A document *)
(* has one transaction at a time: reset leaves a document with a running   *)
(* job alone.                                                              *)
(***************************************************************************)
EXTENDS Naturals, Sequences, Functions

CONSTANTS Docs,      \* documents with text
          Passages,  \* distinct passage texts
          Text,      \* each document's passages, in document order
          Nobody,    \* the owner of a row no transaction is changing
          MaxResets, \* bound on documents the scan resets
          MaxAborts  \* bound on transactions that fail by themselves

ASSUME PassageAssumption ==
    /\ Text \in [Docs -> Seq(Passages)]
    /\ Nobody \notin Docs
    /\ MaxResets \in Nat
    /\ MaxAborts \in Nat

VARIABLES chunks,  \* the passage rows
          placed,  \* document_chunks: committed placements
          status,  \* documents.processing_status
          tx,      \* the open transaction of each document
          resets,  \* resets so far
          aborts   \* transactions that failed by themselves so far

vars == <<chunks, placed, status, tx, resets, aborts>>

-----------------------------------------------------------------------------
\* new: inserted, going: deleted, by the open transaction of document by.
\* A passage inserted again is a row with a chunk_id of its own.
RowStates == {"none", "new", "live", "going"}
Row == [is : RowStates, by : Docs \union {Nobody}, id : Nat]

\* insert: writing passages; check: its placements are written and their
\* foreign keys are being checked; delete: a reset taking passages away.
\* rows are the passages the statement works on, done those it has finished.
Tx == [at : {"idle", "insert", "check", "delete"}, next : Nat,
       rows : SUBSET (Passages \X Nat), done : SUBSET (Passages \X Nat)]
NoTx == [at |-> "idle", next |-> 0, rows |-> {}, done |-> {}]
Opened(at, rows) == [at |-> at, next |-> 1, rows |-> rows, done |-> {}]

PassagesOf(d) == Range(Text[d])
Open(d) == tx[d].at # "idle"
IsRow(r) == chunks[r[1]].id = r[2] /\ chunks[r[1]].is # "none"

Init ==
    /\ chunks = [p \in Passages |-> [is |-> "none", by |-> Nobody, id |-> 0]]
    /\ placed = {}
    /\ status = [d \in Docs |-> "PROCESSING"]
    /\ tx = [d \in Docs |-> NoTx]
    /\ resets = 0
    /\ aborts = 0

-----------------------------------------------------------------------------
(* The end of a transaction.                                               *)

\* Rows a transaction inserted or deleted, once it has committed or rolled
\* back.  Nobody can have seen the chunk_id of a row that was rolled back, so
\* the next one may take its number.
Mine(d) == {p \in Passages : chunks[p].by = d}
Unowned(state, id) == [is |-> state, by |-> Nobody, id |-> id]

Committed(d) ==
    [p \in Passages |->
        IF p \notin Mine(d) THEN chunks[p]
        ELSE Unowned(IF chunks[p].is = "new" THEN "live" ELSE "none", chunks[p].id)]
RolledBack(d) ==
    [p \in Passages |->
        IF p \notin Mine(d) THEN chunks[p]
        ELSE IF chunks[p].is = "new" THEN Unowned("none", chunks[p].id - 1)
        ELSE Unowned("live", chunks[p].id)]

Rollback(d) ==
    /\ chunks' = RolledBack(d)
    /\ tx' = [tx EXCEPT ![d] = NoTx]
    /\ UNCHANGED <<placed, status, resets>>

-----------------------------------------------------------------------------
(* ReplaceChunks.  A document whose embedding is due has no placements left *)
(* to clear: storing them is what completed it, and only reset, which      *)
(* clears them, makes it due again.                                        *)

Begin(d) ==
    /\ status[d] = "PROCESSING"
    /\ ~Open(d)
    /\ tx' = [tx EXCEPT ![d] = Opened("insert", {})]
    /\ UNCHANGED <<chunks, placed, status, resets, aborts>>

\* INSERT ... ON CONFLICT DO NOTHING, row by row in document order.  A row
\* that is there is left as it is, without a lock; one that another
\* transaction is inserting or deleting is waited for.
Free(p) == chunks[p].by = Nobody

Insert(d) ==
    /\ tx[d].at = "insert"
    /\ tx[d].next <= Len(Text[d])
    /\ LET p == Text[d][tx[d].next] IN
       /\ Free(p)
       /\ chunks' = IF chunks[p].is = "live" THEN chunks
                    ELSE [chunks EXCEPT ![p] =
                             [is |-> "new", by |-> d, id |-> @.id + 1]]
    /\ tx' = [tx EXCEPT ![d].next = @ + 1]
    /\ UNCHANGED <<placed, status, resets, aborts>>

\* Mutant: the join reads a snapshot taken before the passages were written.
VisibleBefore(d, p) == chunks[p].is \in {"live", "going"}

\* The placements are the document's passages joined with the rows a new
\* snapshot shows: committed ones, a deletion not yet committed included, and
\* the transaction's own.
Visible(d, p) ==
    \/ chunks[p].is \in {"live", "going"}
    \/ chunks[p].is = "new" /\ chunks[p].by = d

Place(d) ==
    /\ tx[d].at = "insert"
    /\ tx[d].next > Len(Text[d])
    /\ tx' = [tx EXCEPT
          ![d].at = "check",
          ![d].rows = {<<p, chunks[p].id>> :
                         p \in {q \in PassagesOf(d) : Visible(d, q)}}]
    /\ UNCHANGED <<chunks, placed, status, resets, aborts>>

\* Each placement's foreign key locks the passage against deletion, waiting
\* for a deletion in progress.
Check(d) ==
    /\ tx[d].at = "check"
    /\ \E r \in tx[d].rows \ tx[d].done :
          /\ IsRow(r)
          /\ chunks[r[1]].is # "going"
          /\ tx' = [tx EXCEPT ![d].done = @ \union {r}]
    /\ UNCHANGED <<chunks, placed, status, resets, aborts>>

CheckFails(d) ==
    /\ tx[d].at = "check"
    /\ \E r \in tx[d].rows : ~IsRow(r)
    /\ Rollback(d)
    /\ UNCHANGED aborts

CommitStore(d) ==
    /\ tx[d].at = "check"
    /\ tx[d].done = tx[d].rows
    /\ chunks' = Committed(d)
    /\ placed' = placed \union {<<d, r[1], r[2]>> : r \in tx[d].rows}
    /\ status' = [status EXCEPT ![d] = "COMPLETED"]
    /\ tx' = [tx EXCEPT ![d] = NoTx]
    /\ UNCHANGED <<resets, aborts>>

-----------------------------------------------------------------------------
(* reset.  One scan admits one file after another.                         *)

\* Rows of document d that no other document holds, as the statement sees it.
Released(d) ==
    {<<r[2], r[3]>> : r \in {q \in placed :
        /\ q[1] = d
        /\ \A o \in placed : o[2] = q[2] => o[1] = d}}

ResetBegin(d) ==
    /\ status[d] = "COMPLETED"
    /\ ~Open(d)
    /\ \A e \in Docs : tx[e].at # "delete"
    /\ resets < MaxResets
    /\ resets' = resets + 1
    /\ tx' = [tx EXCEPT ![d] = Opened("delete", Released(d))]
    /\ UNCHANGED <<chunks, placed, status, aborts>>

\* Mutant: a placement does not lock its passage.
NoLockers(r) == {}

\* Transactions that hold a lock on row r for a placement of theirs.
Lockers(r) == {e \in Docs : tx[e].at = "check" /\ r \in tx[e].done}

DeleteRow(d) ==
    /\ tx[d].at = "delete"
    /\ \E r \in tx[d].rows \ tx[d].done :
          /\ Lockers(r) = {}
          /\ chunks' = [chunks EXCEPT ![r[1]].is = "going", ![r[1]].by = d]
          /\ tx' = [tx EXCEPT ![d].done = @ \union {r}]
    /\ UNCHANGED <<placed, status, resets, aborts>>

\* ON DELETE RESTRICT: a placement committed since the statement began.
Restricted(d) ==
    \E o \in placed : o[1] # d /\ <<o[2], o[3]>> \in tx[d].rows

Deleted(d) == tx[d].at = "delete" /\ tx[d].done = tx[d].rows

\* Rerouted, the document is extracted and embedded again; refused, it is
\* SKIPPED.
ResetCommit(d) ==
    /\ Deleted(d)
    /\ ~Restricted(d)
    /\ chunks' = Committed(d)
    /\ placed' = {o \in placed : o[1] # d}
    /\ \E s \in {"PROCESSING", "SKIPPED"} : status' = [status EXCEPT ![d] = s]
    /\ tx' = [tx EXCEPT ![d] = NoTx]
    /\ UNCHANGED <<resets, aborts>>

ResetFails(d) ==
    /\ Deleted(d)
    /\ Restricted(d)
    /\ Rollback(d)
    /\ UNCHANGED aborts

-----------------------------------------------------------------------------
(* Misfortunes.                                                            *)

\* The handler is cancelled, a statement fails, the process dies.
Abort(d) ==
    /\ Open(d)
    /\ aborts < MaxAborts
    /\ aborts' = aborts + 1
    /\ Rollback(d)

\* Whom the next statement of d's transaction would wait for.
WaitsFor(d) ==
    CASE tx[d].at = "insert" /\ tx[d].next <= Len(Text[d]) ->
            {chunks[Text[d][tx[d].next]].by} \ {Nobody, d}
      [] tx[d].at = "check" ->
            {chunks[r[1]].by : r \in {q \in tx[d].rows \ tx[d].done :
                                        chunks[q[1]].is = "going"}}
      [] tx[d].at = "delete" ->
            UNION {Lockers(r) : r \in tx[d].rows \ tx[d].done}
      [] OTHER -> {}

\* PostgreSQL breaks a cycle of waits by aborting a transaction in it.
InCycle(d) ==
    \E C \in SUBSET Docs :
        /\ d \in C
        /\ \E blocker \in Injection(C, C) :
              \A e \in C : blocker[e] \in WaitsFor(e)

Deadlock(d) ==
    /\ InCycle(d)
    /\ Rollback(d)
    /\ UNCHANGED aborts

-----------------------------------------------------------------------------
DocStep(d) ==
    \/ Begin(d)      \/ Insert(d) \/ Place(d)       \/ Check(d)
    \/ CheckFails(d) \/ CommitStore(d) \/ ResetBegin(d)  \/ DeleteRow(d)
    \/ ResetCommit(d) \/ ResetFails(d) \/ Abort(d)  \/ Deadlock(d)

\* Nothing is due and nothing is open: a run that has drained.
AllDone ==
    /\ \A d \in Docs : ~Open(d) /\ status[d] # "PROCESSING"
    /\ UNCHANGED vars

Next == (\E d \in Docs : DocStep(d)) \/ AllDone
Spec == Init /\ [][Next]_vars

-----------------------------------------------------------------------------
(* Properties.                                                             *)

TypeOK ==
    /\ chunks \in [Passages -> Row]
    /\ placed \subseteq Docs \X Passages \X Nat
    /\ status \in [Docs -> {"PROCESSING", "COMPLETED", "SKIPPED"}]
    /\ tx \in [Docs -> Tx]
    /\ resets \in 0..MaxResets
    /\ aborts \in 0..MaxAborts

\* A completed document has a placement for every passage of its text: it "is
\* never half-indexed" (embed_worker.go).
WhollyIndexed ==
    \A d \in Docs : status[d] = "COMPLETED" =>
        \A p \in PassagesOf(d) : \E i \in 1..chunks[p].id : <<d, p, i>> \in placed

\* However concurrently documents that share passages are embedded, aborted and
\* deadlocked, a completed one has all of its passages, as long as no scan resets
\* a document meanwhile (chunk_repo.go, insertChunks and ReplaceChunks).
WholeWithoutResets == resets = 0 => WhollyIndexed

\* No placement is ever left pointing at a passage that is gone, and only
\* completed documents have any: what one document releases is never taken
\* from under another that had committed (chunk_repo.go; document_repo.go,
\* reset).
NothingDangles ==
    \A o \in placed : IsRow(<<o[2], o[3]>>) /\ status[o[1]] = "COMPLETED"

\* A passage no transaction is changing is held by some document: neither an
\* aborted insert nor a reset leaves text of a document that is gone where a
\* search could find it.
NoOrphans ==
    \A p \in Passages : chunks[p].is = "live" =>
        \E o \in placed : o[2] = p /\ o[3] = chunks[p].id

\* Whatever aborts or is reset, no placement is left pointing at a passage that
\* is gone (NothingDangles) and no passage outlives its last holder (NoOrphans):
\* what a search finds is exactly what completed documents hold.
PassagesHeld == TypeOK /\ NothingDangles /\ NoOrphans
=============================================================================
