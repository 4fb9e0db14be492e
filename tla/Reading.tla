------------------------------ MODULE Reading ------------------------------
(***************************************************************************)
(* Two readers of one query server side by side: of the evidence that a    *)
(* search found, and of documents by name (QueryTool.Call dispatches to    *)
(* DocumentTool.Call).  They share nothing but the room of a page.         *)
(***************************************************************************)
EXTENDS Evidence, Documents

ReadingInit == EvidenceInit /\ DocumentsInit
ReadingNext ==
    \/ EvidenceNext /\ UNCHANGED documentsVars
    \/ DocumentsNext /\ UNCHANGED evidenceVars
ReadingSpec == ReadingInit /\ [][ReadingNext]_<<evidenceVars, documentsVars>>

\* What is cut into pages arrives whole: the evidence of a search
\* (DeliveredWhole), and documents fetched (NeverMixed).
ArrivesWhole == DeliveredWhole /\ NeverMixed
=============================================================================
