------------------------- MODULE MCBackendScheduler -------------------------
(***************************************************************************)
(* BackendScheduler for TLC: one tenant's blocks, one shard per job.       *)
(***************************************************************************)
EXTENDS BackendScheduler, TLC

MCOneTenant == [b \in Blocks |-> CHOOSE t \in Tenants : TRUE]
MCShardPerJob == [j \in JobIDs |-> j]

\* The jobs are alike, and so are the workers and the blocks of the start.
SafetySymmetry == Permutations(JobIDs) \cup Permutations(FirstBlocks) \cup Permutations(Workers)
=============================================================================
