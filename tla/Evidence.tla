------------------------------ MODULE Evidence ------------------------------
(***************************************************************************)
(* The pages of one evidence result, for a reader that follows its cursors *)
(* (internal/mcp/snapshot.go): packets of the index, known by their sizes, *)
(* then the texts admitted.  Whether a cursor is still served is the       *)
(* store's matter (Snapshots).                                             *)
(***************************************************************************)
EXTENDS Paging

CONSTANTS EvidenceResults,  \* results: an index and the texts admitted
          CursorSize        \* what a continuation takes of a page

\* snapshotFromEvidence admits no empty text.
ASSUME EvidenceAssumption ==
    /\ CursorSize \in Nat
    /\ EvidenceResults \in SUBSET [index : Seq(Nat), items : Seq(Texts \ {<<>>})]

VARIABLES result,
          reading,  \* position of the next page
          packets,  \* what the reader has of the index
          texts     \* and of each text

evidenceVars == <<result, reading, packets, texts>>

Complete == [phase |-> "complete"]
Oversized == [phase |-> "oversized"]
IndexAt(i) == [phase |-> "index", index |-> i, offset |-> 0]
TextAt(i, offset) == [phase |-> "text", index |-> i, offset |-> offset]

EvidenceInit ==
    /\ result \in EvidenceResults
    /\ reading = IndexAt(0)
    /\ packets = <<>>
    /\ texts = [i \in DOMAIN result.items |-> <<>>]

AfterIndex(n) ==
    IF n < Len(result.index) THEN IndexAt(n)
    ELSE IF result.items # <<>> THEN TextAt(1, 0) ELSE Complete

AfterText(i, end) ==
    IF end < Len(result.items[i]) THEN TextAt(i, end)
    ELSE IF i < Len(result.items) THEN TextAt(i + 1, 0) ELSE Complete

Fitting(size, next) ==
    size + (IF next.phase = "complete" THEN 0 ELSE CursorSize) <= PageRoom

SizeOf(some) ==
    LET upTo[n \in 0..Len(some)] == IF n = 0 THEN 0 ELSE upTo[n - 1] + some[n]
    IN upTo[Len(some)]

\* buildIndexPage takes packets until one does not fit.
IndexEnd(start) ==
    LET fits(n) == Fitting(SizeOf(SubSeq(result.index, start + 1, n)), AfterIndex(n))
    IN CHOOSE n \in start..Len(result.index) :
           /\ \A m \in (start + 1)..n : fits(m)
           /\ n = Len(result.index) \/ ~fits(n + 1)

\* buildTextPage: the end is searched for, never inside a character and never
\* before the end of the first.
EndNear(text, offset, middle) ==
    LET b == BoundaryAtOrBefore(text, offset + middle)
    IN IF b <= offset THEN NextBoundary(text, offset) ELSE b
TextEnd(i, offset) ==
    LET text == result.items[i]
        rest == Len(text) - offset
        fitting == {x \in 1..rest :
                       LET end == EndNear(text, offset, x)
                       IN Fitting(end - offset, AfterText(i, end))}
        best == LargestFitting(1, rest, fitting)
    IN IF best = 0 THEN offset
                   ELSE PreferredEnd(text, offset, EndNear(text, offset, best))

ReadIndex ==
    /\ reading.phase = "index"
    /\ LET start == reading.index
           n == IndexEnd(start) IN
       IF n = start /\ n < Len(result.index)
       THEN reading' = Oversized /\ UNCHANGED packets
       ELSE /\ packets' = packets \o SubSeq(result.index, start + 1, n)
            /\ reading' = AfterIndex(n)
    /\ UNCHANGED <<result, texts>>

\* The page is measured once more when it is final.
ReadText ==
    /\ reading.phase = "text"
    /\ LET i == reading.index
           end == TextEnd(i, reading.offset)
           next == AfterText(i, end) IN
       IF end <= reading.offset \/ ~Fitting(end - reading.offset, next)
       THEN reading' = Oversized /\ UNCHANGED texts
       ELSE /\ texts' = [texts EXCEPT ![i] = @ \o SubSeq(result.items[i], reading.offset + 1, end)]
            /\ reading' = next
    /\ UNCHANGED <<result, packets>>

EvidenceNext == ReadIndex \/ ReadText
EvidenceSpec == EvidenceInit /\ [][EvidenceNext]_evidenceVars

-----------------------------------------------------------------------------
\* A packet or a character that no page with a continuation holds.
NoPageHolds ==
    \/ \E k \in DOMAIN result.index : result.index[k] + CursorSize > PageRoom
    \/ \E i \in DOMAIN result.items : \E b \in 0..(Len(result.items[i]) - 1) :
          /\ RuneStart(result.items[i], b)
          /\ NextBoundary(result.items[i], b) - b + CursorSize > PageRoom

\* Following the cursors delivers packets and texts in order and without a gap,
\* in slices of whole characters, and to the end all of them; there is no next
\* page only where something is too large for any (snapshot.go, buildIndexPage and
\* buildTextPage).  In particular a text cut at a paragraph never leaves a page
\* that needs a continuation and has no room for it: the whole rest is only
\* tried after everything but its last byte was found to fit.
DeliveredWhole ==
    /\ IsPrefix(packets, result.index)
    /\ \A i \in DOMAIN result.items :
          /\ IsPrefix(texts[i], result.items[i])
          /\ RuneStart(result.items[i], Len(texts[i]))
          /\ texts[i] # <<>> => /\ packets = result.index
                                /\ \A j \in 1..(i - 1) : texts[j] = result.items[j]
    /\ reading.phase = "complete" => packets = result.index /\ texts = result.items
    /\ reading.phase = "oversized" => NoPageHolds
=============================================================================
