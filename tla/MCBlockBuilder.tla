--------------------------- MODULE MCBlockBuilder ---------------------------
(***************************************************************************)
(* BlockBuilder for TLC: two tenants that share the sections of a          *)
(* partition of two records, and as many block IDs of a section as one     *)
(* attempt and three retries can use up.                                   *)
(***************************************************************************)
EXTENDS BlockBuilder
=============================================================================
