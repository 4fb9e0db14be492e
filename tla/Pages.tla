------------------------------- MODULE Pages -------------------------------
(***************************************************************************)
(* How a PDF or an image becomes text (worker/document_worker.go and the   *)
(* loop of worker/layout.go) on the two semaphores all lanes share: the    *)
(* CPU slots (limits/limits.go), for rendering a page and for reading one, *)
(* and the page slots (engine/pdf/pdfium.go), one for each live bitmap.    *)
(*                                                                         *)
(* A scanned page is rendered by the handler and read by a task of its     *)
(* own, while the handler renders the next; a digital page is read before  *)
(* the next is rendered.  The text of a page is known by its number.       *)
(***************************************************************************)
EXTENDS Integers, Sequences, FiniteSets

CONSTANTS Sheets,    \* documents handled at once, one lane each
          Shapes,    \* of each, what it may be: its kind, pages, layer
          CpuSlots,  \* limits.CPU, and with it the page slots
          Instances  \* PDFium instances, limits.DocumentLanes

ASSUME PagesAssumption ==
    /\ {CpuSlots, Instances} \subseteq Nat \ {0}
    /\ \A d \in Sheets : \A s \in Shapes[d] :
          s.kind \in {"scan", "digital", "image"} /\ {s.pages, s.layer} \subseteq Nat

VARIABLES
    shape,      \* kind: "scan", "digital" or "image"; pages; layer: how
                \* much text the PDF itself has, in pages
    available,  \* ocr.Available: the build can read images
    cancelled,    \* the handler's context has been cancelled
    reader,     \* the handler: where it is, at which page
    task,       \* of each page, the task that reads it, and whether it did
    texts,      \* of each page, the text that landed, 0 if none
    instances,  \* the documents that are open
    pageSlots, cpuSlots, bitmaps, \* who holds one
    outcome     \* how the handler ended, and with which text

pagesVars == <<shape, available, cancelled, reader, task, texts, instances, pageSlots,
               cpuSlots, bitmaps, outcome>>
fixed == <<shape, available>>

Of(d) == 1..shape[d].pages
NoTask == [at |-> "none", got |-> FALSE]
Layer == <<0>>  \* the text of the PDF itself

PagesInit ==
    /\ shape \in [Sheets -> UNION {Shapes[d] : d \in Sheets}]
    /\ \A d \in Sheets : shape[d] \in Shapes[d]
    /\ available \in BOOLEAN
    /\ cancelled = [d \in Sheets |-> FALSE]
    /\ reader = [d \in Sheets |-> [at |-> "idle", page |-> 1]]
    /\ task = [d \in Sheets |-> [p \in Of(d) |-> NoTask]]
    /\ texts = [d \in Sheets |-> [p \in Of(d) |-> 0]]
    /\ instances = {} /\ pageSlots = {} /\ cpuSlots = {} /\ bitmaps = {}
    /\ outcome = [d \in Sheets |-> [verdict |-> "none", text |-> <<>>]]

At(d, place) == reader[d].at = place
Go(d, place) == reader' = [reader EXCEPT ![d].at = place]
Turn(d, place) == reader' = [reader EXCEPT ![d].at = place, ![d].page = @ + 1]
SetTask(d, p, place) == task' = [task EXCEPT ![d][p].at = place]
Room(slots) == Cardinality(slots) < CpuSlots

\* The handler returns, and its document is closed (the deferred Close).
End(d, verdict, text) ==
    /\ reader' = [reader EXCEPT ![d] = [at |-> "ended", page |-> 1]]
    /\ outcome' = [outcome EXCEPT ![d] = [verdict |-> verdict, text |-> text]]
    /\ instances' = instances \ {d}

-----------------------------------------------------------------------------
(* The handler.                                                            *)

\* The lease is lost, or the program is stopping.
CancelHandler(d) ==
    /\ ~cancelled[d] /\ ~At(d, "ended")
    /\ cancelled' = [cancelled EXCEPT ![d] = TRUE]
    /\ UNCHANGED <<fixed, reader, task, texts, instances, pageSlots, cpuSlots, bitmaps, outcome>>

\* The file cannot be read (an error for the caller to judge); a PDF is
\* encrypted or damaged, or does not open; an image is too small, or nothing
\* can read it.
EndEarly(d) ==
    /\ At(d, "idle")
    /\ \E verdict \in {"failed", "declined", "fatal"} : End(d, verdict, <<>>)
    /\ UNCHANGED <<fixed, cancelled, task, texts, pageSlots, cpuSlots, bitmaps>>

\* HandlePDF: OpenDocument, which waits for an instance, and the inspection pass.
OpenDocument(d) ==
    /\ At(d, "idle") /\ shape[d].kind # "image"
    /\ Cardinality(instances) < Instances
    /\ instances' = instances \union {d}
    /\ Go(d, "next")
    /\ UNCHANGED <<fixed, cancelled, task, texts, pageSlots, cpuSlots, bitmaps, outcome>>

\* The head of the loops in ocrPages and layoutDocument.
NextPage(d) ==
    /\ At(d, "next")
    /\ LET last == reader[d].page > shape[d].pages IN
       \/ /\ shape[d].kind = "scan" /\ ~available
          /\ End(d, "declined", <<>>) /\ UNCHANGED texts
       \/ /\ shape[d].kind = "scan" /\ available
          /\ Go(d, IF last \/ cancelled[d] THEN "wait" ELSE "slot")
          /\ UNCHANGED <<texts, instances, outcome>>
       \/ /\ shape[d].kind = "digital" /\ ~last /\ ~cancelled[d] /\ ~available
          /\ Turn(d, "next")
          /\ texts' = [texts EXCEPT ![d][reader[d].page] = reader[d].page]
          /\ UNCHANGED <<instances, outcome>>
       \/ /\ shape[d].kind = "digital"
          /\ Go(d, IF last THEN "laid" ELSE IF cancelled[d] THEN "unlaid" ELSE "slot")
          /\ last \/ cancelled[d] \/ available
          /\ UNCHANGED <<texts, instances, outcome>>
    /\ UNCHANGED <<fixed, cancelled, task, pageSlots, cpuSlots, bitmaps>>

\* The layout is given up, for the text layer: the context ends while the
\* handler waits for a slot, or the page's text layer cannot be read.
GiveUp(d) ==
    /\ At(d, "slot")
    /\ cancelled[d] \/ shape[d].kind = "digital"
    /\ Go(d, IF shape[d].kind = "scan" THEN "wait" ELSE "unlaid")
    /\ UNCHANGED <<fixed, cancelled, task, texts, instances, pageSlots, cpuSlots, bitmaps, outcome>>

PageSlot(d) ==
    /\ At(d, "slot") /\ Room(pageSlots)
    /\ pageSlots' = pageSlots \union {<<d, reader[d].page>>}
    /\ Go(d, "raster")
    /\ UNCHANGED <<fixed, cancelled, task, texts, instances, cpuSlots, bitmaps, outcome>>

\* RenderPage: Acquire, for rasterizing.
AcquireRaster(d) ==
    /\ At(d, "raster") /\ Room(cpuSlots)
    /\ cpuSlots' = cpuSlots \union {<<d, 0>>}
    /\ Go(d, "render")
    /\ UNCHANGED <<fixed, cancelled, task, texts, instances, pageSlots, bitmaps, outcome>>

\* A page is rendered, and its bitmap handed to a task.  Of a digital page the
\* task reads what masking its text leaves, if that has any ink.
Render(d) ==
    /\ At(d, "render")
    /\ cpuSlots' = cpuSlots \ {<<d, 0>>}
    /\ bitmaps' = bitmaps \union {<<d, reader[d].page>>}
    /\ \/ /\ SetTask(d, reader[d].page, "queue") /\ UNCHANGED texts
          /\ IF shape[d].kind = "scan" THEN Turn(d, "next") ELSE Go(d, "join")
       \/ /\ shape[d].kind = "digital"
          /\ SetTask(d, reader[d].page, "clean") /\ Go(d, "join")
          /\ texts' = [texts EXCEPT ![d][reader[d].page] = reader[d].page]
    /\ UNCHANGED <<fixed, cancelled, instances, pageSlots, outcome>>

\* Or the page does not render, or the context ends while the handler waits for
\* the CPU: its slots are given back.  A scan goes on with the next page.
RenderFails(d) ==
    /\ At(d, "render") \/ (At(d, "raster") /\ cancelled[d])
    /\ cpuSlots' = cpuSlots \ {<<d, 0>>}
    /\ pageSlots' = pageSlots \ {<<d, reader[d].page>>}
    /\ CASE shape[d].kind = "digital" -> Go(d, "unlaid")
         [] shape[d].kind = "scan" /\ cancelled[d] -> Go(d, "wait")
         [] OTHER -> Turn(d, "next")
    /\ UNCHANGED <<fixed, cancelled, task, texts, instances, bitmaps, outcome>>

\* pageCells returns; layoutDocument goes on, or fails with it.
Join(d) ==
    /\ At(d, "join") /\ task[d][reader[d].page].at = "done"
    /\ IF texts[d][reader[d].page] = 0 THEN Go(d, "unlaid") ELSE Turn(d, "next")
    /\ UNCHANGED <<fixed, cancelled, task, texts, instances, pageSlots, cpuSlots, bitmaps, outcome>>

-----------------------------------------------------------------------------
(* The task that reads a page.  Its deferred calls run in this order: the  *)
(* bitmap is freed, then its slot.                                         *)

\* Mutant: texts land in the order in which pages are read.
LandNext(d, p) ==
    LET free == {q \in Of(d) : texts[d][q] = 0}
    IN [texts EXCEPT ![d][CHOOSE q \in free : \A r \in free : q <= r] = p]
Land(d, p) == [texts EXCEPT ![d][p] = p]

\* ImageWords: Acquire, for OCR; or the context ends first.
AcquireOcr(d, p) ==
    /\ task[d][p].at = "queue"
    /\ \/ /\ Room(cpuSlots)
          /\ cpuSlots' = cpuSlots \union {<<d, p>>}
          /\ SetTask(d, p, "ocr")
       \/ /\ cancelled[d] /\ SetTask(d, p, "clean")
          /\ UNCHANGED cpuSlots
    /\ UNCHANGED <<fixed, cancelled, reader, texts, instances, pageSlots, bitmaps, outcome>>

\* The words of the page, laid out; or none, or an error: nothing lands.
ImageWords(d, p) ==
    /\ task[d][p].at = "ocr"
    /\ cpuSlots' = cpuSlots \ {<<d, p>>}
    /\ \/ /\ task' = [task EXCEPT ![d][p] = [at |-> "clean", got |-> TRUE]]
          /\ texts' = Land(d, p)
       \/ SetTask(d, p, "clean") /\ UNCHANGED texts
    /\ UNCHANGED <<fixed, cancelled, reader, instances, pageSlots, bitmaps, outcome>>

Cleanup(d, p) ==
    /\ task[d][p].at = "clean"
    /\ bitmaps' = bitmaps \ {<<d, p>>}
    /\ SetTask(d, p, "release")
    /\ UNCHANGED <<fixed, cancelled, reader, texts, instances, pageSlots, cpuSlots, outcome>>

ReturnSlot(d, p) ==
    /\ task[d][p].at = "release"
    /\ pageSlots' = pageSlots \ {<<d, p>>}
    /\ SetTask(d, p, "done")
    /\ UNCHANGED <<fixed, cancelled, reader, texts, instances, cpuSlots, bitmaps, outcome>>

-----------------------------------------------------------------------------
(* The end.                                                                *)

\* emit: the text is stored and the next stage's job queued, unless the context
\* has ended or a statement fails; text that cannot be stored is fatal.
Emit(d, text) ==
    IF text = <<>> THEN End(d, "declined", <<>>)
    ELSE \/ ~cancelled[d] /\ End(d, "emitted", text)
         \/ \E verdict \in {"failed", "fatal"} : End(d, verdict, <<>>)

\* Of the pages wanted, what there is of each, in page order.
Gathered(wanted, of) ==
    LET upTo[p \in 0..Len(of)] ==
          IF p = 0 THEN <<>>
          ELSE IF p \in wanted THEN Append(upTo[p - 1], of[p]) ELSE upTo[p - 1]
    IN upTo[Len(of)]
Landed(d) == Gathered({p \in Of(d) : texts[d][p] # 0}, texts[d])

\* The scan's pages are all read (wg.Wait): the richer of the two texts.
Assemble(d) ==
    /\ At(d, "wait")
    /\ \A p \in Of(d) : task[d][p].at \in {"none", "done"}
    /\ IF cancelled[d] THEN End(d, "fatal", <<>>)
       ELSE Emit(d, IF Len(Landed(d)) > shape[d].layer THEN Landed(d)
                    ELSE IF shape[d].layer > 0 THEN Layer ELSE <<>>)
    /\ UNCHANGED <<fixed, cancelled, task, texts, pageSlots, cpuSlots, bitmaps>>

\* A digital PDF is laid out, or its text layer stands.
Deliver(d) ==
    /\ At(d, "laid") \/ At(d, "unlaid")
    /\ Emit(d, IF At(d, "laid") /\ Landed(d) # <<>> THEN Landed(d) ELSE Layer)
    /\ UNCHANGED <<fixed, cancelled, task, texts, pageSlots, cpuSlots, bitmaps>>

\* HandleImage: Bytes, on a CPU slot alone.
AcquireImage(d) ==
    /\ At(d, "idle") /\ shape[d].kind = "image" /\ available /\ Room(cpuSlots)
    /\ cpuSlots' = cpuSlots \union {<<d, 0>>}
    /\ Go(d, "bytes")
    /\ UNCHANGED <<fixed, cancelled, task, texts, instances, pageSlots, bitmaps, outcome>>

\* Text enough, or too little, unreadable, or an error.
Bytes(d) ==
    /\ At(d, "bytes")
    /\ cpuSlots' = cpuSlots \ {<<d, 0>>}
    /\ Emit(d, <<1>>) \/ Emit(d, <<>>) \/ End(d, "fatal", <<>>)
    /\ UNCHANGED <<fixed, cancelled, task, texts, pageSlots, bitmaps>>

HandlerStep(d) ==
    \/ EndEarly(d) \/ OpenDocument(d) \/ NextPage(d) \/ GiveUp(d)
    \/ PageSlot(d) \/ AcquireRaster(d) \/ Render(d) \/ RenderFails(d)
    \/ Join(d) \/ Assemble(d) \/ Deliver(d) \/ AcquireImage(d) \/ Bytes(d)
TaskStep(d, p) == AcquireOcr(d, p) \/ ImageWords(d, p) \/ Cleanup(d, p) \/ ReturnSlot(d, p)
PageStep(d) == HandlerStep(d) \/ \E p \in Of(d) : TaskStep(d, p)

PagesNext == \E d \in Sheets : PageStep(d) \/ CancelHandler(d)

PagesSpec == PagesInit /\ [][PagesNext]_pagesVars

-----------------------------------------------------------------------------
(* Properties.                                                             *)

\* Every live bitmap has a slot of its own, of a document that is open, so there
\* are never more of them than slots; whoever ends has given everything back,
\* on whatever path (pdfium.go, PageSlot; limits.go, Acquire).  A scan's text is
\* that of every page that could be read, in page order, whatever the order in
\* which the tasks ended (document_worker.go, ocrPages).
PagesSound ==
    /\ bitmaps \subseteq pageSlots /\ Cardinality(pageSlots) <= CpuSlots
    /\ Cardinality(cpuSlots) <= CpuSlots
    /\ \A held \in bitmaps : held[1] \in instances
    /\ \A held \in pageSlots \union cpuSlots : ~At(held[1], "ended")
    /\ \A d \in Sheets : shape[d].kind = "scan" /\ outcome[d].text \notin {<<>>, Layer} =>
          outcome[d].text = Gathered({p \in Of(d) : task[d][p].got}, [p \in Of(d) |-> p])

\* And every handler returns: whoever holds a page slot while it waits for the
\* CPU waits for holders who wait for no page slot.  No step is ever repeated, so
\* that a handler could only fail to return in a state where nobody can move.
\* Whoever does not wait can move; a handler waits for a slot, for the CPU or for
\* its tasks, a task for the CPU.
TaskMoves(d, p) ==
    \/ task[d][p].at \in {"ocr", "clean", "release"}
    \/ task[d][p].at = "queue" /\ (Room(cpuSlots) \/ cancelled[d])
HandlerMoves(d) ==
    \/ reader[d].at \in {"idle", "next", "render", "laid", "unlaid", "bytes"}
    \/ At(d, "slot") /\ Room(pageSlots)
    \/ At(d, "raster") /\ Room(cpuSlots)
    \/ At(d, "join") /\ task[d][reader[d].page].at = "done"
    \/ At(d, "wait") /\ \A p \in Of(d) : task[d][p].at \in {"none", "done"}
PagesMove ==
    \/ \A d \in Sheets : At(d, "ended")
    \/ \E d \in Sheets : HandlerMoves(d) \/ \E p \in Of(d) : TaskMoves(d, p)
=============================================================================
