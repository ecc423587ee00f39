----------------------------- MODULE WorkProofs -----------------------------
(***************************************************************************)
(* What each method of the work cache preserves, for any sets of tenants,  *)
(* workers, blocks and jobs: the types, and that runningByTenant counts    *)
(* the jobs that run.                                                      *)
(***************************************************************************)
EXTENDS Work, TLAPS, FiniteSetTheorems

USE WorkAssumption

LEMMA ActiveFinite ==
    ASSUME NEW S \in SUBSET JobIDs, NEW t, NEW k
    PROVE  IsFiniteSet(JobsOf(S, t, k)) /\ Cardinality(JobsOf(S, t, k)) \in Nat
<1>1. JobsOf(S, t, k) \in SUBSET JobIDs BY DEF JobsOf
<1> QED BY <1>1, FS_Subset, FS_CardinalityType

LEMMA ActiveIsFinite ==
    ASSUME NEW t, NEW k
    PROVE  IsFiniteSet(ActiveJobs(t, k)) /\ Cardinality(ActiveJobs(t, k)) \in Nat
BY ActiveFinite DEF ActiveJobs

(***************************************************************************)
(* RegisterJob: a job that is in no shard gets its detail.                 *)
(***************************************************************************)
LEMMA RegisterJobKeeps ==
    ASSUME WorkTypeOK, RunningExact, NEW j \in JobIDs, NEW d \in Detail, status[j] = "absent",
           RegisterJob(j, d)
    PROVE  WorkTypeOK' /\ RunningExact'
<1>1. WorkTypeOK'
    <2>1. d.blocks \in SUBSET Blocks BY DEF Detail
    <2> QED BY <2>1 DEF WorkTypeOK, RegisterJob, AddRunningBlocks
<1>2. ASSUME NEW t \in Tenants, NEW k \in Kinds PROVE ActiveJobs(t, k)' = ActiveJobs(t, k)
    BY DEF WorkTypeOK, RegisterJob, ActiveJobs, JobsOf, IsActive, tenantOf, kindOf
<1>3. RunningExact' BY <1>2 DEF RunningExact, RegisterJob
<1> QED BY <1>1, <1>3

(***************************************************************************)
(* AddJob: the job is new in the shards and keeps its type and tenant.     *)
(***************************************************************************)
LEMMA AddJobKeeps ==
    ASSUME WorkTypeOK, RunningExact, NEW j \in JobIDs, NEW w \in Workers, NEW d \in Detail,
           d.kind = kindOf(j), d.tenant = tenantOf(j), status[j] = "absent", AddJob(j, w, d)
    PROVE  WorkTypeOK' /\ RunningExact'
<1>0. tenantOf(j) \in Tenants /\ kindOf(j) \in Kinds BY DEF WorkTypeOK, Detail, tenantOf, kindOf
<1>1. WorkTypeOK'
    BY <1>0 DEF WorkTypeOK, AddJob, Statuses, IncRunning, DecInFlight
<1>2. \A i \in JobIDs : tenantOf(i)' = tenantOf(i) /\ kindOf(i)' = kindOf(i)
    BY DEF WorkTypeOK, AddJob, tenantOf, kindOf
<1>3. ASSUME NEW t \in Tenants, NEW k \in Kinds
      PROVE  runningByTenant'[t][k] = Cardinality(ActiveJobs(t, k)')
    <2>1. CASE t = tenantOf(j) /\ k = kindOf(j)
        <3>1. ActiveJobs(t, k)' = ActiveJobs(t, k) \cup {j} /\ j \notin ActiveJobs(t, k)
            BY <1>2, <2>1 DEF WorkTypeOK, AddJob, ActiveJobs, JobsOf, IsActive
        <3>2. Cardinality(ActiveJobs(t, k)') = Cardinality(ActiveJobs(t, k)) + 1
            BY <3>1, ActiveIsFinite, FS_AddElement
        <3>3. runningByTenant'[t][k] = runningByTenant[t][k] + 1
            BY <1>0, <2>1 DEF WorkTypeOK, AddJob, IncRunning
        <3> QED BY <3>2, <3>3 DEF RunningExact
    <2>2. CASE ~(t = tenantOf(j) /\ k = kindOf(j))
        <3>1. ActiveJobs(t, k)' = ActiveJobs(t, k)
            BY <1>2, <2>2 DEF WorkTypeOK, AddJob, ActiveJobs, JobsOf, IsActive
        <3>2. runningByTenant'[t][k] = runningByTenant[t][k]
            BY <1>0, <2>2 DEF WorkTypeOK, AddJob, IncRunning
        <3> QED BY <3>1, <3>2 DEF RunningExact
    <2> QED BY <2>1, <2>2
<1> QED BY <1>1, <1>3 DEF RunningExact

(***************************************************************************)
(* EndJob: the count is given back once, by the call that ends the job.    *)
(***************************************************************************)
LEMMA EndJobKeeps ==
    ASSUME WorkTypeOK, RunningExact, NEW j \in JobIDs, NEW s \in {"succeeded", "failed"}, EndJob(j, s)
    PROVE  WorkTypeOK' /\ RunningExact'
<1>0. tenantOf(j) \in Tenants /\ kindOf(j) \in Kinds BY DEF WorkTypeOK, Detail, tenantOf, kindOf
<1>1. WorkTypeOK'
    <2>1. status' \in [JobIDs -> Statuses] BY DEF WorkTypeOK, EndJob, Statuses
    <2>2. runningByTenant' \in [Tenants -> [Kinds -> Nat]]
        <3>1. DecRunning(tenantOf(j), kindOf(j)) \in [Tenants -> [Kinds -> Nat]]
            BY <1>0 DEF WorkTypeOK, DecRunning
        <3> QED BY <3>1 DEF WorkTypeOK, EndJob
    <2>3. runningBlocks' \in [Blocks -> JobIDs \cup {NoJob}] BY DEF WorkTypeOK, EndJob, RemoveRunningBlocks
    <2>4. workerJobs' \in [Workers -> JobIDs \cup {NoJob}] BY DEF WorkTypeOK, EndJob
    <2> QED BY <2>1, <2>2, <2>3, <2>4 DEF WorkTypeOK, EndJob
<1>2. \A i \in JobIDs : tenantOf(i)' = tenantOf(i) /\ kindOf(i)' = kindOf(i)
    BY DEF EndJob, tenantOf, kindOf
<1>3. ASSUME NEW t \in Tenants, NEW k \in Kinds
      PROVE  runningByTenant'[t][k] = Cardinality(ActiveJobs(t, k)')
    <2>1. CASE t = tenantOf(j) /\ k = kindOf(j) /\ IsActive(j)
        <3>1. ActiveJobs(t, k)' = ActiveJobs(t, k) \ {j} /\ j \in ActiveJobs(t, k)
            BY <1>2, <2>1 DEF WorkTypeOK, EndJob, ActiveJobs, JobsOf, IsActive
        <3>2. Cardinality(ActiveJobs(t, k)') = Cardinality(ActiveJobs(t, k)) - 1
            BY <3>1, ActiveIsFinite, FS_RemoveElement
        <3>3. Cardinality(ActiveJobs(t, k)') \in Nat
            BY <3>1, ActiveIsFinite, FS_RemoveElement, FS_CardinalityType
        <3>4. runningByTenant'[t][k] = IF runningByTenant[t][k] > 0 THEN runningByTenant[t][k] - 1 ELSE 0
            BY <1>0, <2>1 DEF WorkTypeOK, EndJob, DecRunning
        <3>5. runningByTenant[t][k] = Cardinality(ActiveJobs(t, k)) /\ runningByTenant[t][k] \in Nat
            BY DEF RunningExact, WorkTypeOK
        <3> QED BY <3>2, <3>3, <3>4, <3>5
    <2>2. CASE ~(t = tenantOf(j) /\ k = kindOf(j) /\ IsActive(j))
        <3>1. ActiveJobs(t, k)' = ActiveJobs(t, k)
            BY <1>2, <2>2 DEF WorkTypeOK, EndJob, ActiveJobs, JobsOf, IsActive
        <3>2. runningByTenant'[t][k] = runningByTenant[t][k]
            BY <1>0, <2>2 DEF WorkTypeOK, EndJob, DecRunning
        <3> QED BY <3>1, <3>2 DEF RunningExact
    <2> QED BY <2>1, <2>2
<1> QED BY <1>1, <1>3 DEF RunningExact

(***************************************************************************)
(* Prune: the count drops by the jobs that timed out.                      *)
(***************************************************************************)
LEMMA PruneKeeps ==
    ASSUME WorkTypeOK, RunningExact, NEW dead, NEW old, dead \in SUBSET {i \in JobIDs : IsActive(i)},
           old \in SUBSET {i \in JobIDs : ~IsActive(i)}, Prune(dead, old)
    PROVE  WorkTypeOK' /\ RunningExact'
<1>0. dead \in SUBSET JobIDs /\ \A t, k : Cardinality(JobsOf(dead, t, k)) \in Nat
    BY ActiveFinite
<1>1. WorkTypeOK'
    <2>1. \A t \in Tenants, k \in Kinds : runningByTenant[t][k] \in Nat BY DEF WorkTypeOK
    <2>2. runningByTenant' \in [Tenants -> [Kinds -> Nat]] BY <1>0, <2>1 DEF Prune
    <2> QED BY <2>2 DEF WorkTypeOK, Prune, Statuses
<1>2. ASSUME NEW t \in Tenants, NEW k \in Kinds
      PROVE  runningByTenant'[t][k] = Cardinality(ActiveJobs(t, k)')
    <2> DEFINE D == JobsOf(dead, t, k)
               A == ActiveJobs(t, k)'
    <2>1. ActiveJobs(t, k) = A \cup D /\ A \cap D = {}
        BY <1>0 DEF WorkTypeOK, Prune, ActiveJobs, JobsOf, IsActive, tenantOf, kindOf
    <2>2. IsFiniteSet(A) /\ IsFiniteSet(D) /\ Cardinality(A) \in Nat /\ Cardinality(D) \in Nat
        <3>1. A \in SUBSET ActiveJobs(t, k) /\ D \in SUBSET ActiveJobs(t, k) BY <2>1
        <3> HIDE DEF A, D
        <3> QED BY <3>1, ActiveIsFinite, FS_Subset, FS_CardinalityType
    <2>3. Cardinality(ActiveJobs(t, k)) = Cardinality(A) + Cardinality(D)
        <3> HIDE DEF A, D
        <3>1. Cardinality(A \cup D) = Cardinality(A) + Cardinality(D) - Cardinality(A \cap D)
            BY <2>2, FS_Union
        <3>2. Cardinality(A \cap D) = 0 BY <2>1, FS_EmptySet
        <3> QED BY <2>1, <2>2, <3>1, <3>2
    <2>4. runningByTenant'[t][k] =
            IF runningByTenant[t][k] > Cardinality(D) THEN runningByTenant[t][k] - Cardinality(D) ELSE 0
        BY DEF Prune
    <2>5. runningByTenant[t][k] = Cardinality(ActiveJobs(t, k)) BY DEF RunningExact
    <2> HIDE DEF A, D
    <2>6. runningByTenant'[t][k] = Cardinality(A) BY <2>2, <2>3, <2>4, <2>5
    <2> QED BY <2>6 DEF A
<1> QED BY <1>1, <1>2 DEF RunningExact

(***************************************************************************)
(* AddPendingJobs: the jobs are in no shard.                               *)
(***************************************************************************)
LEMMA AddPendingJobsKeeps ==
    ASSUME WorkTypeOK, RunningExact, NEW t \in Tenants, NEW S \in SUBSET Blocks, NEW f \in [S -> JobIDs],
           \A b \in S : status[f[b]] = "absent", AddPendingJobs(f, t)
    PROVE  WorkTypeOK' /\ RunningExact'
<1>1. WorkTypeOK'
    <2>1. detail' \in [JobIDs -> Detail]
        BY DEF WorkTypeOK, AddPendingJobs, Detail, Kinds
    <2>2. pending' \in SUBSET JobIDs /\ output' \in [JobIDs -> SUBSET Blocks]
          /\ pendingBlocks' \in [Blocks -> JobIDs \cup {NoJob}]
        BY DEF WorkTypeOK, AddPendingJobs
    <2> QED BY <2>1, <2>2 DEF WorkTypeOK, AddPendingJobs
<1>2. ASSUME NEW u \in Tenants, NEW k \in Kinds PROVE ActiveJobs(u, k)' = ActiveJobs(u, k)
    <2>1. \A i \in JobIDs : IsActive(i) => detail'[i] = detail[i]
        BY DEF WorkTypeOK, AddPendingJobs, IsActive
    <2> QED BY <2>1 DEF AddPendingJobs, ActiveJobs, JobsOf, IsActive, tenantOf, kindOf
<1> QED BY <1>1, <1>2 DEF RunningExact, AddPendingJobs

(***************************************************************************)
(* The steps that leave the shards' Jobs maps alone.                       *)
(***************************************************************************)
LEMMA OthersKeep ==
    ASSUME WorkTypeOK, RunningExact,
           \/ \E j \in JobIDs, out \in SUBSET Blocks : SetJobCompactionOutput(j, out)
           \/ \E j \in JobIDs : NextPendingJob(j)
           \/ \E t \in Tenants : ReleaseRedactionInFlight(t)
           \/ \E t \in Tenants, b \in Batch \cup {NoBatch} : SetBatch(t, b)
    PROVE  WorkTypeOK' /\ RunningExact'
<1>1. status' = status /\ detail' = detail /\ runningByTenant' = runningByTenant
    BY DEF SetJobCompactionOutput, NextPendingJob, ReleaseRedactionInFlight, SetBatch, jobVars, indexVars
<1>2. RunningExact' BY <1>1 DEF RunningExact, ActiveJobs, JobsOf, IsActive, tenantOf, kindOf
<1>3. ASSUME NEW j \in JobIDs, NEW out \in SUBSET Blocks, SetJobCompactionOutput(j, out) PROVE WorkTypeOK'
    BY <1>3 DEF WorkTypeOK, SetJobCompactionOutput, indexVars
<1>4. ASSUME NEW j \in JobIDs, NextPendingJob(j) PROVE WorkTypeOK'
    <2>1. redactionInFlight' \in [Tenants -> Nat]
        BY <1>4 DEF WorkTypeOK, NextPendingJob, Detail, tenantOf
    <2>2. pending' \in SUBSET JobIDs /\ pendingBlocks' \in [Blocks -> JobIDs \cup {NoJob}]
        BY <1>4 DEF WorkTypeOK, NextPendingJob
    <2> QED BY <1>4, <2>1, <2>2 DEF WorkTypeOK, NextPendingJob
<1>5. ASSUME NEW t \in Tenants, ReleaseRedactionInFlight(t) PROVE WorkTypeOK'
    BY <1>5 DEF WorkTypeOK, ReleaseRedactionInFlight, DecInFlight, jobVars
<1>6. ASSUME NEW t \in Tenants, NEW b \in Batch \cup {NoBatch}, SetBatch(t, b) PROVE WorkTypeOK'
    BY <1>6 DEF WorkTypeOK, SetBatch, jobVars, indexVars
<1> QED BY <1>2, <1>3, <1>4, <1>5, <1>6

(***************************************************************************)
(* rebuildPendingIndexes counts what the files hold.                       *)
(***************************************************************************)
LEMMA RebuildKeeps ==
    ASSUME WorkTypeOK, UNCHANGED detail, status' \in [JobIDs -> Statuses],
           workerOf' \in [JobIDs -> Workers \cup {NoWorker}], output' \in [JobIDs -> SUBSET Blocks],
           pending' \in SUBSET JobIDs, batches' \in [Tenants -> Batch \cup {NoBatch}],
           RebuildIndexes(status', workerOf', pending')
    PROVE  WorkTypeOK' /\ RunningExact'
<1> DEFINE running == {j \in JobIDs : status'[j] = "running"}
<1>1. \A t, k : JobsOf(running, t, k) = ActiveJobs(t, k)'
    BY DEF ActiveJobs, JobsOf, IsActive, tenantOf, kindOf
<1>2. runningByTenant' = [t \in Tenants |-> [k \in Kinds |-> Cardinality(JobsOf(running, t, k))]]
    BY DEF RebuildIndexes
<1>3. \A t, k : Cardinality(JobsOf(running, t, k)) \in Nat BY ActiveFinite
<1> HIDE DEF running
<1>4. runningByTenant' \in [Tenants -> [Kinds -> Nat]] BY <1>2, <1>3
<1>5. RunningExact' BY <1>1, <1>2 DEF RunningExact
<1>6. WorkTypeOK' BY <1>4 DEF WorkTypeOK, RebuildIndexes
<1> QED BY <1>5, <1>6
=============================================================================
