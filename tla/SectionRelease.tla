--------------------------- MODULE SectionRelease ---------------------------
(***************************************************************************)
(* What a block-builder promises to the rest of the system, whatever       *)
(* crashes, retries and lost answers lie behind it: the consumer group     *)
(* only moves forward through a partition, and a record is handed to       *)
(* compaction only once it lies below the committed offset, and for good.  *)
(***************************************************************************)
EXTENDS Integers

CONSTANT Parts            \* the partitions of the topic

VARIABLES done,           \* per partition: the offset consumption has reached
          released        \* the records, <<partition, offset>>, compaction may take

relVars == <<done, released>>

RelInit == /\ done = [p \in Parts |-> 0]
           /\ released = {}

\* A section of partition p ends: consumption has moved on.
Advance(p) == /\ done'[p] > done[p]
              /\ done' = [done EXCEPT ![p] = done'[p]]
              /\ UNCHANGED released

\* Records of finished sections become ordinary, compactable data.
Release == /\ released \subseteq released'
           /\ \A r \in released' : r[2] < done[r[1]]
           /\ UNCHANGED done

RelNext == Release \/ \E p \in Parts : Advance(p)

RelSpec == RelInit /\ [][RelNext]_relVars
=============================================================================
