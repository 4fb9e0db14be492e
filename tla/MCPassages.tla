---------------------------- MODULE MCPassages ----------------------------
(***************************************************************************)
(* Three documents that share two passages, two of them in opposite order. *)
(***************************************************************************)
EXTENDS Passages, TLC

CONSTANTS docA, docB, docC, x, y

MCText == docA :> <<x, y>> @@ docB :> <<y, x>> @@ docC :> <<x>>
=============================================================================
