------------------------------- MODULE Paging -------------------------------
(***************************************************************************)
(* Where texts and results are cut into response pages                     *)
(* (internal/mcp/snapshot.go and document.go).                             *)
(*                                                                         *)
(* A text is the sequence of its bytes, of which only this matters: "s"    *)
(* starts a character, "c" continues one, "n" is a newline.  Sizes of what *)
(* surrounds it are abstract units of the same room.                       *)
(***************************************************************************)
EXTENDS Integers, Sequences, SequencesExt

CONSTANT PageRoom  \* what fits one page besides its frame

ASSUME PagingAssumption == PageRoom \in Nat

\* Valid UTF-8, as the database holds it.
Texts == {t \in Seq({"s", "c", "n"}) :
             \A k \in 1..Len(t) : t[k] = "c" => k > 1 /\ t[k - 1] # "n"}

\* Offsets count the bytes before them.
RuneStart(text, offset) == offset = Len(text) \/ text[offset + 1] # "c"

\* utf8BoundaryAtOrBefore, for 0 <= end <= Len(text).
BoundaryAtOrBefore(text, end) ==
    CHOOSE b \in 0..end :
        /\ b = 0 \/ RuneStart(text, b)
        /\ \A x \in (b + 1)..end : ~RuneStart(text, x)

NextBoundary(text, start) ==
    CHOOSE b \in (start + 1)..Len(text) :
        /\ RuneStart(text, b)
        /\ \A x \in (start + 1)..(b - 1) : ~RuneStart(text, x)

\* preferredParagraphEnd: the last blank line in the later half of the slice.
ParagraphEnds(text, start, maximum) ==
    {b \in (start + 2)..maximum :
        /\ text[b - 1] = "n" /\ text[b] = "n"
        /\ b - 2 - start >= (maximum - start) \div 2}
PreferredEnd(text, start, maximum) ==
    LET ends == ParagraphEnds(text, start, maximum) IN
    IF ends = {} THEN maximum ELSE Max(ends)

\* A binary search for the greatest member of fitting, right if fitting is
\* closed downwards: the bounds after each probe.
Narrowed(bounds, fitting) ==
    LET middle == bounds[1] + (bounds[2] - bounds[1]) \div 2 IN
    IF bounds[1] > bounds[2] THEN bounds
    ELSE IF middle \in fitting THEN <<middle + 1, bounds[2]>>
                               ELSE <<bounds[1], middle - 1>>
LargestFitting(low, high, fitting) ==
    LET probe[k \in 0..(high + 1 - low)] ==
            IF k = 0 THEN <<low, high>> ELSE Narrowed(probe[k - 1], fitting)
    IN probe[high + 1 - low][1] - 1
=============================================================================
