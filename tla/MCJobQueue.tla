---------------------------- MODULE MCJobQueue ----------------------------
(***************************************************************************)
(* The job queue for model checking: one lane in each of two processes, so *)
(* that a lane always meets the claims and locks of the other process,     *)
(* alive, lapsed or dead.                                                  *)
(***************************************************************************)
EXTENDS JobQueue, TLC

CONSTANTS d1, w1, w2, p1, p2

MCProcOf == w1 :> p1 @@ w2 :> p2
=============================================================================
