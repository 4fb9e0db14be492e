------------------------------ MODULE Mailbox ------------------------------
(***************************************************************************)
(* Listing a live mailbox page by page (internal/mailbox and the           *)
(* list_messages tool, internal/mcp/mailbox.go) while stage transactions   *)
(* save messages (SaveEmailMessage, storage/postgres/email_repo.go).       *)
(*                                                                         *)
(* ingested_at defaults to now(), which is when the transaction BEGAN; a   *)
(* row is seen once it committed.  A cursor carries everything about its   *)
(* series, so a reader that lost an answer asks for the same page again:   *)
(* only answers that arrive are steps.                                     *)
(***************************************************************************)
EXTENDS Naturals, FiniteSets, Sequences, SequencesExt

CONSTANTS Docs,          \* document identifiers, numbered in uuid order
          Parsed,        \* what parsing, old and new, makes of each message
          Requests,      \* orders and filters asked for
          Limits,        \* page sizes asked for, zero for none
          DefaultLimit, MaxLimit,
          Owners,        \* addresses of the workspace's owner
          DomainOf,      \* the domain of each address
          Unset,           \* a filter that is not set
          MaxClock,      \* bound on the database clock
          MaxSaving      \* bound on transactions at a time

\* sentAt is 0 for a message without a Date.
ASSUME MailboxAssumption ==
    /\ Docs \subseteq Nat /\ Limits \subseteq Nat
    /\ {DefaultLimit, MaxLimit, MaxClock} \subseteq Nat \ {0}
    /\ \A d \in Docs : \A c \in Parsed[d] :
          c.sentAt \in Nat /\ c.from \union c.to \subseteq DOMAIN DomainOf
    /\ \A q \in Requests : q.order \in {"newest_first", "oldest_first"}

VARIABLES clock,    \* the database clock
          saving,   \* stage transactions that save a message
          mail,     \* committed rows of email_messages
          listing,  \* the page series that is read
          shown,    \* the messages it returned so far
          matched,  \* history: what matched when its watermark was taken
          changed   \* history: rows rewritten or deleted since

mailboxVars == <<clock, saving, mail, listing, shown, matched, changed>>

Undated == 0
NoSave == [at |-> "none"]
NoListing == [at |-> "none"]

MailboxInit ==
    /\ clock = 1
    /\ saving = [d \in Docs |-> NoSave]
    /\ mail = <<>>
    /\ listing = NoListing
    /\ shown = <<>>
    /\ matched = {}
    /\ changed = {}

-----------------------------------------------------------------------------
(* The order, as keyset.go states it and as the queries spell it.          *)

Key(d) == [sentAt |-> mail[d].sentAt, doc |-> d]

NewestFirstBefore(a, b) ==
    \/ a.sentAt # Undated /\ b.sentAt = Undated
    \/ a.sentAt # Undated /\ a.sentAt > b.sentAt
    \/ a.sentAt = b.sentAt /\ a.doc > b.doc
Before(order, a, b) ==
    IF order = "oldest_first" THEN NewestFirstBefore(b, a) ELSE NewestFirstBefore(a, b)

\* orderSQL: DESC NULLS LAST and its reverse; 0 sorts as NULLs are told to.
Sorted(order, a, b) ==
    IF order = "oldest_first"
    THEN a.sentAt < b.sentAt \/ (a.sentAt = b.sentAt /\ a.doc < b.doc)
    ELSE a.sentAt > b.sentAt \/ (a.sentAt = b.sentAt /\ a.doc > b.doc)

\* Mutant: the dated page forgets that undated messages still follow.
AfterDatesOnly(order, k, r) ==
    /\ r.sentAt # Undated
    /\ IF order = "oldest_first"
       THEN r.sentAt > k.sentAt \/ (r.sentAt = k.sentAt /\ r.doc > k.doc)
       ELSE r.sentAt < k.sentAt \/ (r.sentAt = k.sentAt /\ r.doc < k.doc)
\* keysetPredicate: r lies strictly after the page boundary k.
AfterBoundary(order, k, r) ==
    LET dated == r.sentAt # Undated IN
    \/ /\ order = "oldest_first" /\ k.sentAt = Undated
       /\ dated \/ r.doc > k.doc
    \/ /\ order = "oldest_first" /\ k.sentAt # Undated
       /\ dated /\ (r.sentAt > k.sentAt \/ (r.sentAt = k.sentAt /\ r.doc > k.doc))
    \/ /\ order = "newest_first" /\ k.sentAt = Undated
       /\ ~dated /\ r.doc < k.doc
    \/ /\ order = "newest_first" /\ k.sentAt # Undated
       /\ \/ ~dated \/ r.sentAt < k.sentAt
          \/ r.sentAt = k.sentAt /\ r.doc < k.doc

-----------------------------------------------------------------------------
(* The filters.                                                            *)

\* normalize: direction needs the owner's identities, and a range a message.
Acceptable(q) ==
    /\ q.direction # Unset => Owners # {}
    /\ q.after # Unset /\ q.before # Unset => q.after < q.before

\* A sender is one mailbox or one whole domain.
SentBy(c, sender) ==
    sender \in c.from \/ \E a \in c.from : DomainOf[a] = sender
Directed(c, direction) ==
    \/ direction \in {Unset, "either"}
    \/ direction = "outbound" /\ c.from \intersect Owners # {}
    \/ /\ direction = "inbound"
       /\ c.to \intersect Owners # {} /\ c.from \intersect Owners = {}
Matches(c, q) ==
    /\ q.sender # Unset => SentBy(c, q.sender)
    /\ q.recipient # Unset => q.recipient \in c.to
    /\ Directed(c, q.direction)
    /\ q.after # Unset => c.sentAt # Undated /\ c.sentAt >= q.after
    /\ q.before # Unset => c.sentAt # Undated /\ c.sentAt < q.before

-----------------------------------------------------------------------------
(* Saving.                                                                 *)

Pass == clock < MaxClock /\ clock' = clock + 1
        /\ UNCHANGED <<saving, mail, listing, shown, matched, changed>>

\* The e-mail stage's transaction, whose now() is this moment's.
BeginSave(d, c) ==
    /\ saving[d] = NoSave
    /\ Cardinality({e \in Docs : saving[e] # NoSave}) < MaxSaving
    /\ saving' = [saving EXCEPT ![d] = [at |-> "begun", began |-> clock, content |-> c]]
    /\ UNCHANGED <<clock, mail, listing, shown, matched, changed>>

\* ON CONFLICT DO UPDATE leaves ingested_at alone.
IngestedAt(d) == IF d \in DOMAIN mail THEN mail[d].ingested ELSE saving[d].began

Saved(d) == [sentAt |-> saving[d].content.sentAt, from |-> saving[d].content.from,
             to |-> saving[d].content.to, ingested |-> IngestedAt(d)]
CommitSave(d) ==
    /\ saving[d] # NoSave
    /\ mail' = [e \in DOMAIN mail \union {d} |-> IF e = d THEN Saved(d) ELSE mail[e]]
    /\ changed' = IF d \in DOMAIN mail /\ listing # NoListing THEN changed \union {d} ELSE changed
    /\ saving' = [saving EXCEPT ![d] = NoSave]
    /\ UNCHANGED <<clock, listing, shown, matched>>

RollBackSave(d) ==
    /\ saving[d] # NoSave
    /\ saving' = [saving EXCEPT ![d] = NoSave]
    /\ UNCHANGED <<clock, mail, listing, shown, matched, changed>>

\* The document is forgotten, its row with it.
DeleteMail(d) ==
    /\ d \in DOMAIN mail
    /\ saving[d] = NoSave
    /\ mail' = [e \in DOMAIN mail \ {d} |-> mail[e]]
    /\ changed' = IF listing # NoListing THEN changed \union {d} ELSE changed
    /\ UNCHANGED <<clock, saving, listing, shown, matched>>

-----------------------------------------------------------------------------
(* Listing.                                                                *)

Watermark == clock

\* Snapshot: the database clock, in a transaction of its own.
OpenSeries(q) ==
    /\ listing = NoListing
    /\ Acceptable(q)
    /\ listing' = [at |-> "paging", request |-> q, snapshot |-> Watermark, after |-> NoListing]
    /\ matched' = {d \in DOMAIN mail : Matches(mail[d], q)}
    /\ UNCHANGED <<clock, saving, mail, shown, changed>>

PageSize(limit) ==
    IF limit = 0 THEN DefaultLimit ELSE IF limit > MaxLimit THEN MaxLimit ELSE limit

\* The query of one page: the rows below the watermark, after the boundary.
Found(q) ==
    {d \in DOMAIN mail :
        /\ mail[d].ingested <= listing.snapshot
        /\ Matches(mail[d], q)
        /\ listing.after # NoListing => AfterBoundary(q.order, listing.after, Key(d))}
Rows(q) ==
    CHOOSE rows \in SetToSeqs(Found(q)) :
        \A i, j \in DOMAIN rows : i < j => Sorted(q.order, Key(rows[i]), Key(rows[j]))

VerifiedPage(rows, order) ==
    /\ listing.after # NoListing =>
          \A i \in DOMAIN rows : Before(order, listing.after, Key(rows[i]))
    /\ \A i \in DOMAIN rows \ {1} : Before(order, Key(rows[i - 1]), Key(rows[i]))

\* cursorFor, of the last message kept; Truncate re-issues it.
Boundary(rows, n, size) == Key(rows[n])

\* One row more than the page decides whether there is another.  n messages fit
\* the response: finalizeMailboxList cuts a page that does not, to one message
\* at the least, and fails otherwise.
Turnover(q, limit, n) ==
    LET size == PageSize(limit)
        rows == Rows(q)
        more == Len(rows) > size \/ n < Len(rows) IN
    /\ VerifiedPage(rows, q.order)
    /\ n \in (IF rows = <<>> THEN {0} ELSE 1..Len(rows))
    /\ n <= size
    /\ shown' = shown \o SubSeq(rows, 1, n)
    /\ listing' = IF more
                  THEN [listing EXCEPT !.after = Boundary(rows, n, size)]
                  ELSE [listing EXCEPT !.at = "finished"]
    /\ UNCHANGED <<clock, saving, mail, matched, changed>>

\* cursorState.check: the order and the fingerprint of the filters.
SameSeries(q) == q = listing.request

ListMessages(q, limit, n) ==
    /\ listing.at = "paging"
    /\ SameSeries(q)
    /\ Turnover(q, limit, n)

MailboxNext ==
    \/ Pass
    \/ \E d \in Docs : \/ \E c \in Parsed[d] : BeginSave(d, c)
                       \/ CommitSave(d) \/ RollBackSave(d) \/ DeleteMail(d)
    \/ \E q \in Requests : OpenSeries(q)
    \/ \E q \in Requests, limit \in Limits, n \in 0..MaxLimit : ListMessages(q, limit, n)

MailboxSpec == MailboxInit /\ [][MailboxNext]_mailboxVars

-----------------------------------------------------------------------------
(* Properties.                                                             *)

MailboxTypeOK ==
    /\ clock \in 1..MaxClock
    /\ DOMAIN mail \subseteq Docs
    /\ \A d \in DOMAIN mail : mail[d].ingested \in 1..clock
    /\ listing.at \in {"none", "paging", "finished"}
    /\ \A i \in DOMAIN shown : shown[i] \in Docs

Times(d) == {i \in DOMAIN shown : shown[i] = d}
Kept == {d \in DOMAIN mail : d \notin changed}

\* A message that is neither processed again nor deleted while a series is read
\* is returned once if it matched when the watermark was taken, never twice,
\* and in the order asked for: whatever else is saved meanwhile, wherever a
\* page is cut, dated or not (query.go, ListMessages and Truncate: "exactly
\* once").
EachOnce ==
    /\ MailboxTypeOK
    /\ \A d \in Kept : \A i, j \in Times(d) : i = j
    /\ listing.at = "finished" => \A d \in Kept \intersect matched : Times(d) # {}
    /\ \A d, e \in Kept : \A i \in Times(d), j \in Times(e) :
          i < j => Before(listing.request.order, Key(d), Key(e))
    /\ \A d \in Kept : Times(d) # {} => Matches(mail[d], listing.request)

\* A series that ends has returned what is below its watermark ("returns every
\* matching message exactly once, whatever is ingested while the caller is
\* reading", cursor.go): what it does not return came later.
NothingSkipped ==
    [][listing.at = "paging" /\ listing'.at = "finished" =>
          \A d \in Kept : /\ mail[d].ingested <= listing.snapshot
                          /\ Matches(mail[d], listing.request)
                          => \E i \in DOMAIN shown' : shown'[i] = d]_mailboxVars
=============================================================================
