---------------------------- MODULE MCBlocklist ----------------------------
(* Small instances of Blocklist. *)
EXTENDS Blocklist, TLC

\* Block IDs are interchangeable, and so are the workers.
BlockSymmetry == Permutations(Blocks) \cup Permutations(Workers)
=============================================================================
