--------------------------- MODULE MCCompleteQueue ---------------------------
(***************************************************************************)
(* Three ops, two of them about the same block, two loops and two          *)
(* attempts: an op can fail once and be given up, and an enqueue of a      *)
(* block can meet an op for it in every state.                             *)
(***************************************************************************)
EXTENDS CompleteQueue, TLC

CONSTANTS o1, o2, o3, k1, k2

MCKeyOf == (o1 :> k1) @@ (o2 :> k1) @@ (o3 :> k2)
=============================================================================
