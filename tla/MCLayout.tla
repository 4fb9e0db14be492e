------------------------------ MODULE MCLayout ------------------------------
(***************************************************************************)
(* Pages of a few words, each known by its letters.  A statement: two rows *)
(* in columns, a raised character, a leader to a figure, words that only   *)
(* the image shows and a fragment of a logo; or a heading beside words set *)
(* upside down, down the margin and as loose characters; its text objects  *)
(* drawn in every order, with or without a break between them where the    *)
(* pen jumps far back against their direction, settled or not.  And scans  *)
(* of one to three lines, turned each way, straight or with words that     *)
(* sink along the line.                                                    *)
(***************************************************************************)
EXTENDS Layout

Draw(text, left, base, dx, dy, width) ==
    [i \in DOMAIN text |-> [text |-> text[i], left |-> left + dx * (i - 1),
        right |-> left + dx * (i - 1) + width, bottom |-> base + dy * (i - 1),
        top |-> base + dy * (i - 1) + 10]]
Printed(text, left, right, base) ==
    [text |-> text, left |-> left, right |-> right, base |-> base, upright |-> FALSE]
Flat(text, left, base) == Draw(text, left, base, 5, 0, 5)
Dots(c, n, left, width) == Draw([i \in 1..n |-> c], left, 80, width, 0, width)
NewlineChar == Draw(<<"\n">>, 0, 0, 0, 0, 0)

Heading == Flat(<<"a", "b", " ", "c", "d">>, 0, 100)
Amount == Flat(<<"e", "f">>, 60, 100)
Raised == Flat(<<"g">>, 45, 103)
Ruled == Flat(<<"h">>, 0, 80) \o Dots(".", 8, 5, 2) \o Dots("_", 6, 21, 3)
Figure == Flat(<<"j", "k">>, 60, 80)
Inverted == Draw(<<"i1", "i2", "i3", "i4", "i5", "i6", "i7", "i8">>, 60, 60, -5, 0, 5)
Margin == Draw(<<"v1", "v2", "v3">>, 120, 100, 0, -12, 5)
Loose == Flat(<<"s1">>, 140, 60) \o NewlineChar \o Flat(<<"s3">>, 141, 36) \o NewlineChar
         \o Flat(<<"s2">>, 138, 48)

PrintedHeading == {Printed(<<"a", "b">>, 0, 10, 100), Printed(<<"c", "d">>, 15, 25, 100),
                   Printed(<<"e", "f">>, 60, 70, 100)}
PrintedStatement == PrintedHeading \union {Printed(<<"g">>, 45, 50, 100), Printed(<<"h">>, 0, 39, 80),
                                           Printed(<<"j", "k">>, 60, 70, 80)}
PrintedMargin == PrintedHeading \union
    {Printed(<<"i1", "i2", "i3", "i4", "i5", "i6", "i7", "i8">>, 60, 60, 60),
     [Printed(<<"v1", "v2", "v3">>, 120, 125, 110) EXCEPT !.upright = TRUE],
     [Printed(<<"s1", "s2", "s3">>, 138, 146, 70) EXCEPT !.upright = TRUE]}

\* b is drawn far back from the end of a, against its direction: a run leftwards,
\* one that has travelled rightwards, or one too short or upright to tell.
Back(a, b) ==
    IF a = Inverted THEN b[1].right > Min(All(a, LAMBDA c : c.left)) + xBackJumpEpsilon
    ELSE b[1].left < Last(a).right - xBackJumpEpsilon
Undecided == {Raised, Margin, Loose}
\* breaks: where a line break comes between text objects, "always", or not after one
\* that is "settled" or "any" the drawing jumps back from.
Stream(objects, breaks) ==
    FlattenSeq([i \in DOMAIN objects |->
        IF i > 1 /\ (breaks = "always" \/ ~Back(objects[i - 1], objects[i])
                     \/ (breaks = "settled" /\ objects[i - 1] \in Undecided))
        THEN NewlineChar \o objects[i] ELSE objects[i]])
Orders(S) == {s \in [1..Cardinality(S) -> S] : Cardinality(All(s, LAMBDA x : x)) = Cardinality(S)}

Seen(text, box) == [text |-> text, box |-> box, line |-> box]
Missed == Seen(<<"m", "n">>, <<30, 90, 40, 100>>)
Fragment == Seen(<<"z">>, <<48, 110, 53, 120>>)

Paper(layer, words, printed) ==
    [layer |-> layer, words |-> words, height |-> 200, printed |-> printed]
Statements == {Paper(Stream(order, breaks), words,
                     PrintedStatement \union (IF words = <<>> THEN {} ELSE {Printed(Missed.text, 30, 40, 100)})) :
               order \in Orders({Heading, Amount, Raised, Ruled, Figure}), breaks \in {"always", "settled", "any"},
               words \in {<<>>, <<Missed>>, <<Missed, Fragment>>}}
Margins == {Paper(Stream(order, breaks), <<>>, PrintedMargin) :
            order \in Orders({Heading, Amount, Inverted, Margin, Loose}), breaks \in {"always", "settled", "any"}}

-----------------------------------------------------------------------------
(* Scans.                                                                  *)

Names == <<<<"a", "b">>, <<"c", "d">>, <<"e", "f">>, <<"g", "h">>, <<"j", "k">>, <<"m", "n">>>>
Turned(turn, b) ==
    CASE turn = 0 -> b
      [] turn = 1 -> <<100 - b[4], b[1], 100 - b[2], b[3]>>
      [] turn = 2 -> <<100 - b[3], 100 - b[4], 100 - b[1], 100 - b[2]>>
      [] turn = 3 -> <<b[2], 100 - b[3], b[4], 100 - b[1]>>
\* counts: the words of each line.
Scan(counts, turn, sink) ==
    LET before(r) == MapThenSumSet(LAMBDA q : counts[q], 1..(r - 1))
        box(k, r) == <<30 * (k - 1), 20 * r - 10 + sink * (k - 1), 30 * (k - 1) + 10,
                       20 * r + sink * (k - 1)>>
        line(r) == <<0, 20 * r - 10, 30 * counts[r] - 20, 20 * r + sink * (counts[r] - 1)>>
        word(k, r) == [text |-> Names[before(r) + k], box |-> Turned(turn, box(k, r)),
                       line |-> Turned(turn, line(r))]
    IN Paper(<<>>, FlattenSeq([r \in DOMAIN counts |-> [k \in 1..counts[r] |-> word(k, r)]]),
             {Printed(Names[before(p[2]) + p[1]], 30 * (p[1] - 1), 30 * p[1] - 20, 100 - 20 * p[2]) :
                 p \in {q \in (1..3) \X DOMAIN counts : q[1] <= counts[q[2]]}})
Counts == {<<2>>, <<3, 1>>, <<1, 2, 3>>, <<2, 2>>}
Scans == {Scan(counts, turn, 0) : counts \in Counts, turn \in 0..3}
         \union {Scan(counts, turn, 6) : counts \in Counts, turn \in 0..3}

MCSheets == Statements \union Margins \union Scans

=============================================================================
