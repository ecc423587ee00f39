---------------------------- MODULE MCLiveStore ----------------------------
(***************************************************************************)
(* LiveStore for TLC.                                                      *)
(***************************************************************************)
EXTENDS LiveStore

\* Two block IDs: one block is cut and completed while the next one fills.
MCBlocks == 1 .. 2
=============================================================================
