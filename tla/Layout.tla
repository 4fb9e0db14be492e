------------------------------- MODULE Layout -------------------------------
(***************************************************************************)
(* How a page becomes lines of text (worker/layout.go): the characters of  *)
(* its text layer, in the order in which the file draws them, are broken   *)
(* into lines (engine/pdf/pdfium.go, writeStructuredChars) and these into  *)
(* words with a place on the page; words read from its image get a place   *)
(* too, whichever way up the scan is; and all of them are set out in rows  *)
(* and columns.                                                            *)
(*                                                                         *)
(* Points and pixels are integers of one scale.  A text is a sequence of   *)
(* characters.  A box is <<x1, y1, x2, y2>>, of an image, y downwards, and *)
(* NoLine the empty one.  Of the page, y grows upwards.                    *)
(***************************************************************************)
EXTENDS Integers, Sequences, FiniteSets, FiniteSetsExt, SequencesExt

CONSTANT TwoByte \* letters of two bytes

VARIABLES
    sheet,  \* the page: layer, its characters as drawn; words, those OCR
            \* reports; height of the image; and what is printed there, for
            \* the property
    cells,  \* words with a place on the page
    lines,  \* the text
    laying  \* what comes next

layoutVars == <<sheet, cells, lines, laying>>

Blank == " "
NoLine == <<0, 0, 0, 0>>
IsLeader(c) == c \in {".", "_"}
IsLetter(c) == c # Blank /\ ~IsLeader(c)
LayBytes(text) == Len(text) + Len(SelectSeq(text, LAMBDA c : c \in TwoByte))
TextOfAll(chars) == [i \in DOMAIN chars |-> chars[i].text]
TrimSpace(text) ==
    LET solid == {i \in DOMAIN text : text[i] # Blank}
    IN IF solid = {} THEN <<>> ELSE SubSeq(text, Min(solid), Max(solid))
TrimRight(text) == SubSeq(text, 1, Max({0} \union {i \in DOMAIN text : text[i] # Blank}))
Widest(values) == Max({0} \union values)
All(things, Of(_)) == {Of(things[i]) : i \in DOMAIN things}

\* The sequence cut where an element does not join the group before it.
Grouped(s, Joins(_, _)) ==
    FoldLeft(LAMBDA groups, x :
                IF groups # <<>> /\ Joins(Last(groups), x)
                THEN [groups EXCEPT ![Len(groups)] = Append(@, x)]
                ELSE Append(groups, <<x>>),
             <<>>, s)

\* sort.SliceStable, of so few elements an insertion sort: the order need not
\* be transitive.
Sorted(s, Before(_, _)) ==
    FoldLeft(LAMBDA done, x :
                LET at == Max({0} \union {i \in DOMAIN done : ~Before(x, done[i])})
                IN SubSeq(done, 1, at) \o <<x>> \o SubSeq(done, at + 1, Len(done)),
             <<>>, s)
Median(s) == s[(Len(s) \div 2) + 1]

-----------------------------------------------------------------------------
(* The text layer.                                                         *)

xBackJumpEpsilon == 30
dirCommitPoints == 5

NewPen == [done |-> <<>>, cur |-> <<>>, extent |-> 0, dir |-> 0, start |-> 0, broke |-> TRUE]

\* Mutant: a line is taken to travel rightwards.
Rightwards(pen, c) == [pen EXCEPT !.start = IF pen.broke THEN c.left ELSE @]
\* The line's direction, once it has travelled far enough to tell.
Commit(pen, c) ==
    CASE pen.broke -> [pen EXCEPT !.start = c.left]
      [] ~pen.broke /\ pen.dir = 0 /\ c.left - pen.start >= dirCommitPoints ->
            [pen EXCEPT !.dir = 1, !.extent = c.right]
      [] ~pen.broke /\ pen.dir = 0 /\ c.left - pen.start <= -dirCommitPoints ->
            [pen EXCEPT !.dir = -1, !.extent = -c.left]
      [] OTHER -> pen

EndLine(pen) == [pen EXCEPT !.done = Append(@, pen.cur), !.cur = <<>>]
NewLine(pen) == [pen EXCEPT !.extent = 0, !.dir = 0, !.broke = TRUE]

Write(pen, c) ==
    IF c.text = "\n" THEN NewLine(IF pen.broke THEN pen ELSE EndLine(pen))
    ELSE LET p == Commit(pen, c)
             trailing == IF p.dir < 0 THEN -c.right ELSE c.left
             jumped == ~p.broke /\ trailing < p.extent - xBackJumpEpsilon
             q == IF jumped THEN [NewLine(EndLine(p)) EXCEPT !.start = c.left] ELSE p
         IN [q EXCEPT !.cur = Append(@, c), !.broke = @ /\ c.text = Blank,
                      !.extent = Max({@, IF q.dir < 0 THEN -c.left ELSE c.right})]

PageLines(chars) == EndLine(FoldLeft(Write, NewPen, chars)).done

\* A run that travels further down the page than across it.
isVertical(l) ==
    /\ Len(l) >= 2
    /\ Max(All(l, LAMBDA c : c.top)) - Min(All(l, LAMBDA c : c.bottom))
          > Max(All(l, LAMBDA c : c.right)) - Min(All(l, LAMBDA c : c.left))

Cell(text, l, r, b, t, h) == [text |-> text, left |-> l, right |-> r, bottom |-> b, top |-> t,
                              height |-> h, ocr |-> FALSE, vertical |-> FALSE, lone |-> FALSE]
wordCell(chars) ==
    Cell(TextOfAll(chars), chars[1].left, Last(chars).right,
         Min(All(chars, LAMBDA c : c.bottom)), Widest(All(chars, LAMBDA c : c.top)),
         Widest(All(chars, LAMBDA c : c.top - c.bottom)))
verticalCell(chars) ==
    LET top == Widest(All(chars, LAMBDA c : c.top))
    IN [Cell(TrimSpace(TextOfAll(chars)), Min(All(chars, LAMBDA c : c.left)),
             Widest(All(chars, LAMBDA c : c.right)), top, top,
             Widest(All(chars, LAMBDA c : c.top - c.bottom))) EXCEPT !.vertical = TRUE]

\* splitLines, of one line.
CellsOfLine(l) ==
    LET lone == LayBytes(TrimSpace(TextOfAll(l))) <= 2
        words == SelectSeq(Grouped(l, LAMBDA g, c : (g[1].text = Blank) = (c.text = Blank)),
                           LAMBDA g : g[1].text # Blank)
    IN IF isVertical(l) THEN IF TrimSpace(TextOfAll(l)) = <<>> THEN <<>> ELSE <<verticalCell(l)>>
       ELSE [i \in DOMAIN words |-> [wordCell(words[i]) EXCEPT !.lone = lone]]

sameColumn == 6
minRun == 3

\* Loose characters stacked in a column, read from the top.
gatherStrays(split) ==
    LET numbered == [i \in DOMAIN split |-> [c |-> split[i], at |-> i]]
        near(a, b) == a.c.left - b.c.left \in -sameColumn..sameColumn
        stacks == Grouped(
            Sorted(SelectSeq(numbered, LAMBDA n : n.c.lone /\ ~n.c.vertical),
                   LAMBDA a, b : IF near(a, b) THEN a.c.top > b.c.top ELSE a.c.left < b.c.left),
            LAMBDA g, n : near(n, g[1]) /\ Last(g).c.top - n.c.top < 2 * Max({n.c.height, 1}))
        runs == SelectSeq(stacks, LAMBDA g : Len(g) >= minRun)
        run(g) == LET top == Widest(All(g, LAMBDA n : n.c.top))
                  IN [Cell(FlattenSeq([i \in DOMAIN g |-> g[i].c.text]),
                           Min(All(g, LAMBDA n : n.c.left)), Widest(All(g, LAMBDA n : n.c.right)),
                           top, top, Widest(All(g, LAMBDA n : n.c.height)))
                        EXCEPT !.vertical = TRUE]
        kept == SelectSeq(numbered, LAMBDA n : \A i \in DOMAIN runs : ~Contains(runs[i], n))
    IN [i \in DOMAIN kept |-> kept[i].c] \o [i \in DOMAIN runs |-> run(runs[i])]

layerCells(pageLines) ==
    gatherStrays(FlattenSeq([i \in DOMAIN pageLines |-> CellsOfLine(pageLines[i])]))

-----------------------------------------------------------------------------
(* The image.                                                              *)

Rightward == <<1, 0>>
Downward == <<0, 1>>
Center(box) == <<(box[1] + box[3]) \div 2, (box[2] + box[4]) \div 2>>
Size(n) == IF n < 0 THEN -n ELSE n
Axis(dx, dy, fallback) ==
    CASE dx = 0 /\ dy = 0 -> fallback
      [] <<dx, dy>> # <<0, 0>> /\ Size(dx) >= Size(dy) -> <<IF dx >= 0 THEN 1 ELSE -1, 0>>
      [] OTHER -> <<0, IF dy >= 0 THEN 1 ELSE -1>>

\* How words advance within a line, and how lines do.
readingAxes(words) ==
    LET within == {i \in 2..Len(words) :
                      words[i - 1].line # NoLine /\ words[i].line = words[i - 1].line}
        lined(i) == {j \in 1..(i - 1) : words[j].line # NoLine}
        previous(i) == words[Max(lined(i))].line
        across == {i \in (2..Len(words)) \ within : lined(i) # {} /\ words[i].line # NoLine}
        gone(k) == MapThenSumSet(
                      LAMBDA i : Center(words[i].box)[k] - Center(words[i - 1].box)[k], within)
        fallen(k) == MapThenSumSet(
                      LAMBDA i : Center(words[i].line)[k] - Center(previous(i))[k], across)
        along == Axis(gone(1), gone(2), Rightward)
        down == Axis(fallen(1), fallen(2), Downward)
    IN <<along, IF along[1] * down[1] + along[2] * down[2] # 0 THEN <<-along[2], along[1]>> ELSE down>>

Lo(box, axis) == Min({box[1] * axis[1] + box[2] * axis[2], box[3] * axis[1] + box[4] * axis[2]})
Hi(box, axis) == Max({box[1] * axis[1] + box[2] * axis[2], box[3] * axis[1] + box[4] * axis[2]})

\* Words on the measured axes; an upright page keeps its own origin, y upwards.
imageCells(words, height) ==
    LET axes == readingAxes(words)
        along == axes[1]
        down == axes[2]
        turned == axes # <<Rightward, Downward>>
        u == IF turned THEN Min(All(words, LAMBDA w : Lo(w.box, along))) ELSE 0
        v == IF turned THEN Min(All(words, LAMBDA w : Lo(w.box, down))) ELSE height
        base(w) == IF w.line # NoLine /\ Hi(w.line, down) > 0 THEN Hi(w.line, down)
                   ELSE Hi(w.box, down)
        cell(w) == [Cell(TrimSpace(w.text), Lo(w.box, along) - u, Hi(w.box, along) - u,
                         v - base(w), v - Lo(w.box, down), Hi(w.box, down) - Lo(w.box, down))
                      EXCEPT !.ocr = TRUE]
        read == SelectSeq(words, LAMBDA w : TrimSpace(w.text) # <<>>)
    IN [i \in DOMAIN read |-> cell(read[i])]

-----------------------------------------------------------------------------
(* Rows and columns.                                                       *)

\* The median advance of the page's words, a fraction <<width, characters>>.
charPitch(all) ==
    LET measured == SelectSeq(all, LAMBDA c : ~c.vertical /\ c.right > c.left)
        advances == Sorted([i \in DOMAIN measured |->
                              <<measured[i].right - measured[i].left, Len(measured[i].text)>>],
                           LAMBDA a, b : a[1] * b[2] < b[1] * a[2])
    IN CASE advances = <<>> -> <<5, 1>>
         [] advances # <<>> /\ Median(advances)[1] < Median(advances)[2] -> <<1, 1>>
         [] OTHER -> Median(advances)
Column(x, pitch) == (2 * x * pitch[2] + pitch[1]) \div (2 * pitch[1])

\* Twice the tolerance: half the median height, or two points.
rowTolerance(all) ==
    LET heights == Sorted(SelectSeq([i \in DOMAIN all |-> IF all[i].vertical THEN 0 ELSE all[i].height],
                                    LAMBDA h : h > 0), <)
    IN IF heights = <<>> THEN 8 ELSE Max({4, Median(heights)})

\* At least two letters or digits in a row.
Readable(run) == \E i \in DOMAIN run : \E k \in 2..Len(run[i].text) :
                    IsLetter(run[i].text[k - 1]) /\ IsLetter(run[i].text[k])
dropFragments(row) ==
    FlattenSeq(SelectSeq(Grouped(row, LAMBDA g, c : g[1].ocr /\ c.ocr),
                         LAMBDA g : ~g[1].ocr \/ Readable(g)))

\* Words that share the baseline of the first of them, from left to right.
Rows(all) ==
    LET flat == Sorted(SelectSeq(all, LAMBDA c : ~c.vertical), LAMBDA a, b : a.bottom > b.bottom)
        grouped == Grouped(flat, LAMBDA g, c : 2 * (g[1].bottom - c.bottom) <= rowTolerance(all))
        row(g) == [at |-> g[1].bottom,
                   cells |-> dropFragments(Sorted(g, LAMBDA a, b : a.left < b.left))]
    IN SelectSeq([i \in DOMAIN grouped |-> row(grouped[i])], LAMBDA r : r.cells # <<>>)

keep == 3
\* A leader's share of the excess, rounded up.
Share(excess, spare, slack) == (excess * spare + slack - 1) \div slack
\* Leaders shrink together to what the cell has room for.
fitToWidth(text, width) ==
    LET excess == Len(text) - width
        parts == Grouped(text, LAMBDA g, c : IsLeader(c) /\ g[1] = c)
        spare(i) == IF IsLeader(parts[i][1]) THEN Max({0, Len(parts[i]) - keep}) ELSE 0
        slack == MapThenSumSet(spare, DOMAIN parts)
        fitted(i) == IF spare(i) = 0 THEN parts[i]
                     ELSE SubSeq(parts[i], 1,
                             Max({keep, Len(parts[i]) - Share(excess, spare(i), slack)}))
    IN IF width <= 0 \/ excess <= 0 \/ slack = 0 THEN text
       ELSE FlattenSeq([i \in DOMAIN parts |-> fitted(i)])
FittedText(c, pitch) == fitToWidth(c.text, Column(c.right, pitch) - Column(c.left, pitch))

\* The length of the line so far is counted in bytes.
LineOf(row, pitch) ==
    TrimRight(FoldLeft(LAMBDA line, c :
        LET size == LayBytes(line)
            col == IF Column(c.left, pitch) <= size /\ size > 0 THEN size + 1
                   ELSE Column(c.left, pitch)
        IN line \o [i \in 1..(col - size) |-> Blank] \o FittedText(c, pitch),
        <<>>, row.cells))

layoutPage(all) ==
    LET pitch == charPitch(all)
        rows == Rows(all)
        upright == Sorted(SelectSeq(all, LAMBDA c : c.vertical),
                          LAMBDA a, b : a.top > b.top \/ (a.top = b.top /\ a.left < b.left))
        gap(i) == rows[i].at - rows[i + 1].at
        typical == Median(Sorted([i \in 1..(Len(rows) - 1) |-> gap(i)], <))
        paragraph(i) == i < Len(rows) /\ 5 * gap(i) > 9 * typical
    IN [i \in DOMAIN upright |-> upright[i].text]
       \o (IF upright # <<>> /\ rows # <<>> THEN <<<<>>>> ELSE <<>>)
       \o FlattenSeq([i \in DOMAIN rows |->
             <<LineOf(rows[i], pitch)>> \o (IF paragraph(i) THEN <<<<>>>> ELSE <<>>)])

trimBlankLines(page) ==
    LET solid == {i \in DOMAIN page : TrimSpace(page[i]) # <<>>}
    IN IF solid = {} THEN <<>> ELSE SubSeq(page, Min(solid), Max(solid))

-----------------------------------------------------------------------------

LayoutInit(page) == sheet = page /\ cells = <<>> /\ lines = <<>> /\ laying = "layer"

ReadLayer ==
    /\ laying = "layer" /\ laying' = "image"
    /\ cells' = layerCells(PageLines(sheet.layer))
    /\ UNCHANGED <<sheet, lines>>
\* What the image holds besides, if anything.
ReadImage ==
    /\ laying = "image" /\ laying' = "cells"
    /\ cells' = cells \o imageCells(sheet.words, sheet.height)
    /\ UNCHANGED <<sheet, lines>>
LayOut ==
    /\ laying = "cells" /\ laying' = "laid"
    /\ lines' = trimBlankLines(layoutPage(cells))
    /\ UNCHANGED <<sheet, cells>>
LayoutNext == ReadLayer \/ ReadImage \/ LayOut

-----------------------------------------------------------------------------
(* Properties.                                                             *)

PlacesOf(text) == UNION {{<<i, k>> : k \in {k \in 1..(Len(lines[i]) - Len(text) + 1) :
                                              SubSeq(lines[i], k, k + Len(text) - 1) = text}} :
                         i \in DOMAIN lines}
LineIn(w) == (CHOOSE p \in PlacesOf(w.text) : TRUE)[1]
ColumnOf(w) == (CHOOSE p \in PlacesOf(w.text) : TRUE)[2] - 1
SameRow(a, b) == ~a.upright /\ ~b.upright /\ a.base = b.base
\* The row up to w leaves a column between any two words.
RoomUpTo(w, pitch) == \A a, b \in sheet.printed :
    SameRow(a, w) /\ SameRow(b, w) /\ a.left < b.left /\ b.left <= w.left =>
        (b.left - a.right) * pitch[2] >= pitch[1]
\* No letter of two bytes stands before w in its row.
SingleBytesBefore(w) == \A a \in sheet.printed :
    SameRow(a, w) /\ a.left < w.left => LayBytes(a.text) = Len(a.text)

\* Where the drawing leaps, and where a stretch of it begins.
Leaps(chars) == {k \in 2..Len(chars) :
    /\ chars[k].text # "\n" /\ chars[k - 1].text # "\n"
    /\ Size(chars[k].left - chars[k - 1].left) > xBackJumpEpsilon}
Begins(chars) == {1} \union Leaps(chars) \union {k \in 2..Len(chars) : chars[k - 1].text = "\n"}
\* A leap back from characters that have not yet travelled either way: the layout
\* takes what follows for their continuation.
Abrupt == \E k \in Leaps(sheet.layer) :
    LET from == Max({i \in Begins(sheet.layer) : i < k})
    IN /\ sheet.layer[k].left < sheet.layer[k - 1].left
       /\ \A i \in from..(k - 1) :
             Size(sheet.layer[i].left - sheet.layer[from].left) < dirCommitPoints
\* A line of the scan lies wholly before the axis it is measured on: its words
\* then have baselines of their own.
Askew ==
    LET down == readingAxes(sheet.words)[2]
    IN \E i \in DOMAIN sheet.words :
          /\ sheet.words[i].line # NoLine /\ Hi(sheet.words[i].line, down) <= 0
          /\ Hi(sheet.words[i].line, down) # Hi(sheet.words[i].box, down)

\* Every word stands once and whole, and nothing else stands there.
WordsWhole ==
    /\ \A w \in sheet.printed : Cardinality(PlacesOf(w.text)) = 1
    /\ MapThenSumSet(LAMBDA i : Len(SelectSeq(lines[i], IsLetter)), DOMAIN lines)
          = MapThenSumSet(LAMBDA w : Len(w.text), sheet.printed)
\* Rows from the top and words from the left, never touching; a run set upright
\* has a line to itself, above the rest.
RowsInOrder == \A a, b \in sheet.printed :
    /\ a.upright /\ a # b => LineIn(a) # LineIn(b)
    /\ (a.upright /\ ~b.upright) \/ (a.upright = b.upright /\ a.base > b.base) =>
          LineIn(a) < LineIn(b)
    /\ SameRow(a, b) /\ a.left < b.left =>
          LineIn(a) = LineIn(b) /\ ColumnOf(a) + Len(a.text) < ColumnOf(b)
\* A word is in the column it is printed at where there is room, leaders shortened
\* to make it.
InColumn(w) ==
    LET pitch == charPitch(cells)
    IN ~w.upright /\ RoomUpTo(w, pitch) => ColumnOf(w) = Column(w.left, pitch)

\* The text of a page reads as it is printed, whatever the order in which the
\* file draws it, whichever part of it only the image shows and whichever way up
\* the image is (layout.go, layoutPage; pdfium.go, writeStructuredChars): words,
\* rows and columns, except for the three kinds of page and of row below.
LayoutSound == laying = "laid" /\ ~Abrupt /\ ~Askew =>
    /\ WordsWhole /\ RowsInOrder
    /\ \A w \in sheet.printed : SingleBytesBefore(w) => InColumn(w)

\* The same of every page.  Words share a baseline "whatever order they were drawn
\* in" (layout.go) and a line behaves "exactly as before - rightwards - until the
\* run has moved" (pdfium.go), where a jump back from its first characters sets the
\* direction; "every word of a line gets the same" baseline (layout.go, imageCells),
\* where a line whose lower edge is not positive is left aside; "a statement's
\* columns land under each other" (layout.go, layoutPage), where a line with letters
\* of two bytes is measured in bytes.
ReadsAsPrinted == laying = "laid" =>
    WordsWhole /\ RowsInOrder /\ \A w \in sheet.printed : InColumn(w)
=============================================================================
