----------------------------- MODULE Documents -----------------------------
(***************************************************************************)
(* fetch_document: exact lookups whose pages are continued by a stateless  *)
(* cursor, while documents are processed again, admitted and forgotten     *)
(* (internal/mcp/document.go, storage/postgres/document_lookup.go).        *)
(*                                                                         *)
(* The lookup is by filename; its matches are ordered by admission, latest *)
(* first.  A page holds PageRoom units: an identity takes one, so does     *)
(* every byte of text and every attachment; the cursor is always accounted *)
(* for.                                                                    *)
(***************************************************************************)
EXTENDS Paging

CONSTANTS Names,         \* documents of the name looked up
          Revisions,     \* of each: its texts and attachments
          MaxMatches,    \* documents one lookup returns
          MaxEdits       \* bound on changes

ASSUME DocumentsAssumption ==
    /\ MaxMatches \in Nat /\ MaxEdits \in Nat
    /\ \A d \in Names :
          Revisions[d] \in SUBSET [doc : {d}, text : Texts, parts : Seq(STRING)]

VARIABLES matching,  \* documents that match, in the order of the lookup
          fetch,     \* where the reader is
          got,       \* what it was delivered, by document
          steady,    \* history: matches unchanged since it began
          moved,     \* history: the match to go on with was admitted again
          edits

documentsVars == <<matching, fetch, got, steady, moved, edits>>

DocumentsInit ==
    /\ matching = <<>>
    /\ fetch = [at |-> "idle"]
    /\ got = <<>>
    /\ steady = {}
    /\ moved = FALSE
    /\ edits = 0

-----------------------------------------------------------------------------
(* The lookup and its continuation.                                        *)

At(i, phase, offset) == [index |-> i, phase |-> phase, offset |-> offset]

MoreMatches == Len(matching) > MaxMatches
Matches1 == SubSeq(matching, 1, IF MoreMatches THEN MaxMatches ELSE Len(matching))

\* The page under construction from pos on, of which `used' is taken.
Going(matches, more, pos, used) ==
    IF pos.index > Len(matches)
    THEN [at |-> "complete", returned |-> Range(matches), more |-> more]
    ELSE [at |-> "building", matches |-> matches, more |-> more, pos |-> pos, used |-> used]

\* documentCursor.position: the match, its text's revision and the position in it.
Resumes(c, match) ==
    /\ match.doc = c.doc
    /\ match.text = c.text
    /\ c.phase = "text" => c.offset < Len(match.text) /\ RuneStart(match.text, c.offset)
    /\ c.phase = "attachments" => c.offset <= Len(match.parts)

\* Call without a cursor.
Fetch ==
    /\ fetch.at \in {"idle", "complete", "stale"}
    /\ fetch' = Going(Matches1, MoreMatches, At(1, "text", 0), 0)
    /\ got' = <<>>
    /\ steady' = Range(Matches1)
    /\ moved' = FALSE
    /\ UNCHANGED <<matching, edits>>

Continue ==
    /\ fetch.at = "paging"
    /\ \E i \in DOMAIN Matches1 :
          /\ Resumes(fetch.cursor, Matches1[i])
          /\ fetch' = Going(Matches1, MoreMatches,
                            At(i, fetch.cursor.phase, fetch.cursor.offset), 0)
    /\ UNCHANGED <<matching, got, steady, moved, edits>>

\* errStaleDocumentCursor: the reader has to begin again.
GoStale ==
    /\ fetch.at = "paging"
    /\ ~\E i \in DOMAIN Matches1 : Resumes(fetch.cursor, Matches1[i])
    /\ fetch' = [at |-> "stale"]
    /\ UNCHANGED <<matching, got, steady, moved, edits>>

-----------------------------------------------------------------------------
(* buildDocumentPage, one match at a time.                                 *)

Here == fetch.matches[fetch.pos.index]
RoomLeft == PageRoom - fetch.used - 1

\* encodeDocumentCursor
PausedAt(pos) ==
    [at |-> "paging",
     cursor |-> [doc |-> Here.doc, text |-> Here.text,
                 phase |-> pos.phase, offset |-> pos.offset]]

\* The page ends before pos, or there is none.
Yield(pos) ==
    /\ fetch' = IF fetch.used > 0 THEN PausedAt(pos) ELSE [at |-> "failed"]
    /\ UNCHANGED got

Had(d) == IF d \in DOMAIN got THEN got[d] ELSE [text |-> <<>>, parts |-> <<>>]
Deliver(text, parts) ==
    got' = [d \in DOMAIN got \union {Here.doc} |->
               IF d = Here.doc THEN [text |-> Had(d).text \o text,
                                     parts |-> Had(d).parts \o parts]
               ELSE got[d]]

\* How far the text goes, offset if nowhere.
FetchedEnd(text, offset, room) ==
    LET fitting == {x \in (offset + 1)..Len(text) :
                       LET b == BoundaryAtOrBefore(text, x)
                       IN b > offset /\ b - offset <= room}
    IN BoundaryAtOrBefore(text, LargestFitting(offset + 1, Len(text), fitting))

\* Mutant: after a text that was cut, the rest is not asked for.
CutText(i, end) == At(i, "attachments", 0)
RestOfText(i, end) == At(i, "text", end)

TextDue == fetch.pos.phase = "text" /\ fetch.pos.offset < Len(Here.text)
EndHere == FetchedEnd(Here.text, fetch.pos.offset, RoomLeft)

TakeNothing ==
    /\ TextDue /\ EndHere <= fetch.pos.offset
    /\ Yield(fetch.pos)

TakeSomeText ==
    /\ TextDue /\ EndHere > fetch.pos.offset /\ EndHere < Len(Here.text)
    /\ LET cut == PreferredEnd(Here.text, fetch.pos.offset, EndHere) IN
       /\ Deliver(SubSeq(Here.text, fetch.pos.offset + 1, cut), <<>>)
       /\ fetch' = PausedAt(RestOfText(fetch.pos.index, cut))

\* The attachments, beside the rest of the text where that is due.
TakeParts ==
    /\ TextDue => EndHere = Len(Here.text)
    /\ LET i == fetch.pos.index
           text == IF TextDue THEN SubSeq(Here.text, fetch.pos.offset + 1, EndHere) ELSE <<>>
           first == IF fetch.pos.phase = "attachments" THEN fetch.pos.offset ELSE 0
           remaining == Len(Here.parts) - first
           count == LargestFitting(0, remaining,
                                   {n \in 0..remaining : n <= RoomLeft - Len(text)})
           taken == IF count < 0 THEN 0 ELSE count IN
       IF text = <<>> /\ count # remaining /\ taken = 0
       THEN Yield(At(i, "attachments", first))
       ELSE /\ Deliver(text, SubSeq(Here.parts, first + 1, first + taken))
            /\ fetch' = IF taken = remaining
                        THEN Going(fetch.matches, fetch.more, At(i + 1, "text", 0),
                                   fetch.used + 1 + Len(text) + taken)
                        ELSE PausedAt(At(i, "attachments", first + taken))

TakeMatch ==
    /\ fetch.at = "building"
    /\ \/ TakeNothing \/ TakeSomeText \/ TakeParts
    /\ UNCHANGED <<matching, steady, moved, edits>>

-----------------------------------------------------------------------------
(* What changes the matches.                                               *)

Edited ==
    /\ edits < MaxEdits
    /\ edits' = edits + 1
    /\ steady' = steady \intersect Range(matching')
    /\ UNCHANGED <<fetch, got>>

\* The documents that the reader may have to go on with.
Ahead ==
    CASE fetch.at = "paging" -> {fetch.cursor.doc}
      [] fetch.at = "building" ->
             {fetch.matches[i].doc : i \in fetch.pos.index..Len(fetch.matches)}
      [] OTHER -> {}

\* A newly admitted file, or one admitted again, comes first.
Admit(d) ==
    /\ \A i \in DOMAIN matching : matching[i].doc # d
    /\ \E r \in Revisions[d] : matching' = <<r>> \o matching
    /\ moved' = (moved \/ d \in Ahead)
    /\ Edited

\* A stage saves another text; a container is read again.
Reprocess(i) ==
    /\ \E r \in Revisions[matching[i].doc] : matching' = [matching EXCEPT ![i] = r]
    /\ Edited
    /\ UNCHANGED moved

ForgetMatch(i) ==
    matching' = RemoveAt(matching, i) /\ Edited /\ UNCHANGED moved

DocumentsNext ==
    \/ Fetch \/ Continue \/ GoStale \/ TakeMatch
    \/ \E d \in Names : Admit(d)
    \/ \E i \in DOMAIN matching : Reprocess(i) \/ ForgetMatch(i)
DocumentsSpec == DocumentsInit /\ [][DocumentsNext]_documentsVars

-----------------------------------------------------------------------------
(* Properties.                                                             *)

\* A reader that follows the cursors to complete=true has every document that
\* stayed as it was, whole and once, except those that admissions pushed behind
\* the bound of a lookup, and it is told that there are more; and it never has the
\* beginning of one revision with the end of another (document.go, position:
\* "without mixing two revisions").  Only if the very document it is to go on with
\* was forgotten and admitted again meanwhile, and so comes first, are those after
\* it repeated.
NeverMixed ==
    ~moved =>
        /\ fetch.at = "complete" => \A m \in steady :
              IF m \in fetch.returned
              THEN m.doc \in DOMAIN got
                   /\ got[m.doc] = [text |-> m.text, parts |-> m.parts]
              ELSE fetch.more
        /\ \A d \in DOMAIN got : \E r \in Revisions[d] : IsPrefix(got[d].text, r.text)

\* "Only a single match's identity alone outgrowing a page fails" (document.go,
\* buildDocumentPage).
OnlyIdentityFails == fetch.at = "failed" => PageRoom < 1
=============================================================================
