-------------------------------- MODULE Work --------------------------------
(***************************************************************************)
(* The backend scheduler's work cache (modules/backendscheduler/work): the *)
(* job shards, which are persisted, and the indexes beside them, which are *)
(* rebuilt on load.  Every operator below is one method of Work and one    *)
(* step: a method takes a shard lock and then pendingMtx, and nothing      *)
(* reads the state between its two critical sections that it would not     *)
(* also read before the first or after the second.                         *)
(*                                                                         *)
(* Abstractions.  A job's detail is its type, tenant and the blocks it     *)
(* names.  pendingByTenant holds the jobs of the Pending maps and is       *)
(* derived from them; the order of the per-tenant queue is left open.  A   *)
(* block belongs to one tenant, so each ...BlocksByTenant index is one     *)
(* function from blocks to jobs; pendingBlocks and runningBlocks of the    *)
(* code, the same with a compound key, are read only by IsBlockBusy, which *)
(* nothing calls.                                                          *)
(* UNSPECIFIED and RUNNING are one status: Next starts the job it adds     *)
(* before anything else looks at it.                                       *)
(***************************************************************************)
EXTENDS Naturals, FiniteSets

CONSTANTS
    Tenants, Workers, Blocks,
    JobIDs,        \* job IDs; one that nothing refers to stands for a new UUID
    Shards,        \* shard files
    ShardOf,       \* getShardID
    NoJob, NoWorker, NoBatch

ASSUME WorkAssumption ==
    /\ IsFiniteSet(JobIDs)
    /\ ShardOf \in [JobIDs -> Shards]
    /\ NoJob \notin JobIDs
    /\ NoWorker \notin Workers

Kinds == {"compaction", "retention", "redaction"}
Statuses == {"absent", "running", "succeeded", "failed"}

VARIABLES
    detail,           \* Job.Type and Job.JobDetail
    status,           \* shard.Jobs: Job.Status, "absent" for an ID not in the map
    workerOf,         \* Job.WorkerID
    output,           \* JobDetail.Compaction.Output
    pending,          \* shard.Pending
    registeredJobs,
    redactionInFlight,
    runningByTenant,
    pendingBlocks,    \* pendingBlocksByTenant
    runningBlocks,    \* runningBlocksByTenant
    workerJobs,
    batches           \* batchStore.byTenant

jobVars == <<detail, status, workerOf, output, pending>>
indexVars == <<registeredJobs, redactionInFlight, runningByTenant, pendingBlocks, runningBlocks, workerJobs>>
workVars == <<jobVars, indexVars, batches>>
-----------------------------------------------------------------------------
kindOf(j) == detail[j].kind
tenantOf(j) == detail[j].tenant
blocksOf(j) == detail[j].blocks

IsActive(j) == status[j] = "running"
JobsOf(S, t, k) == {j \in S : tenantOf(j) = t /\ kindOf(j) = k}
ActiveJobs(t, k) == JobsOf({j \in JobIDs : IsActive(j)}, t, k)

\* Bug: a dequeued job is not counted before a worker has it.
HasJobsIgnoresInFlight(t, k) ==
    \/ JobsOf(pending, t, k) # {}
    \/ runningByTenant[t][k] > 0
    \/ JobsOf(registeredJobs, t, k) # {}

HasJobsForTenant(t, k) ==
    \/ JobsOf(pending, t, k) # {}
    \/ runningByTenant[t][k] > 0
    \/ k = "redaction" /\ redactionInFlight[t] > 0
    \/ JobsOf(registeredJobs, t, k) # {}

\* BusyBlocksForTenant maps a busy block to a job; a registered or running
\* job overrides a pending one.
BusyJob(b) == IF runningBlocks[b] # NoJob THEN runningBlocks[b] ELSE pendingBlocks[b]

BusyBlocks(t) == {b \in Blocks : \E j \in {runningBlocks[b], pendingBlocks[b]} \ {NoJob} : tenantOf(j) = t}

\* hasBlockingBatch: an apply-mode batch; a dry run blocks nothing.
TenantPending(t) == batches[t] # NoBatch /\ ~batches[t].dryRun

GetJobForWorker(w) ==
    IF workerJobs[w] # NoJob /\ IsActive(workerJobs[w]) THEN workerJobs[w] ELSE NoJob
-----------------------------------------------------------------------------
IncRunning(t, k) == [runningByTenant EXCEPT ![t][k] = @ + 1]
DecRunning(t, k) == [runningByTenant EXCEPT ![t][k] = IF @ > 0 THEN @ - 1 ELSE 0]

\* decRedactionInFlightLocked, which never goes below zero.
DecInFlight(t) == [redactionInFlight EXCEPT ![t] = IF @ > 0 THEN @ - 1 ELSE 0]

\* addRunningBlocksByTenant and its guarded opposite.
AddRunningBlocks(j, bs) == [b \in Blocks |-> IF b \in bs THEN j ELSE runningBlocks[b]]
RemoveRunningBlocks(j) ==
    [b \in Blocks |-> IF b \in blocksOf(j) /\ runningBlocks[b] = j THEN NoJob ELSE runningBlocks[b]]

\* Bug: the job's blocks do not become busy.
RegisterJobUnindexed(j, d) ==
    /\ detail' = [detail EXCEPT ![j] = d]
    /\ registeredJobs' = registeredJobs \cup {j}
    /\ output' = [output EXCEPT ![j] = {}]
    /\ UNCHANGED <<status, workerOf, pending, redactionInFlight, runningByTenant, pendingBlocks, runningBlocks,
                   workerJobs, batches>>

\* A provider registers a job it just created.
RegisterJob(j, d) ==
    /\ detail' = [detail EXCEPT ![j] = d]
    /\ registeredJobs' = registeredJobs \cup {j}
    /\ runningBlocks' = AddRunningBlocks(j, d.blocks)
    /\ output' = [output EXCEPT ![j] = {}]
    /\ UNCHANGED <<status, workerOf, pending, redactionInFlight, runningByTenant, pendingBlocks, workerJobs,
                   batches>>

\* Bug: the in-flight count is not given back when the job is promoted.
AddJobLeaksInFlight(j, w, d) ==
    /\ detail' = [detail EXCEPT ![j] = d]
    /\ status' = [status EXCEPT ![j] = "running"]
    /\ workerOf' = [workerOf EXCEPT ![j] = w]
    /\ registeredJobs' = registeredJobs \ {j}
    /\ workerJobs' = [workerJobs EXCEPT ![w] = j]
    /\ runningByTenant' = IncRunning(tenantOf(j), kindOf(j))
    /\ UNCHANGED <<output, pending, redactionInFlight, pendingBlocks, runningBlocks, batches>>

\* SetWorkerID, AddJob and StartJob, with the detail Next has completed.
\* ErrJobAlreadyExists cannot happen: a job enters the pipeline once, before
\* it is in any shard's Jobs.
AddJob(j, w, d) ==
    /\ detail' = [detail EXCEPT ![j] = d]
    /\ status' = [status EXCEPT ![j] = "running"]
    /\ workerOf' = [workerOf EXCEPT ![j] = w]
    /\ registeredJobs' = registeredJobs \ {j}
    /\ redactionInFlight' = IF kindOf(j) = "redaction" THEN DecInFlight(tenantOf(j))
                            ELSE redactionInFlight
    /\ workerJobs' = [workerJobs EXCEPT ![w] = j]
    /\ runningByTenant' = IncRunning(tenantOf(j), kindOf(j))
    /\ UNCHANGED <<output, pending, pendingBlocks, runningBlocks, batches>>

\* CompleteJob (s = "succeeded") and FailJob (s = "failed"): the status is
\* set whatever it was, the worker's entry is deleted whichever job it names.
EndJob(j, s) ==
    /\ status' = [status EXCEPT ![j] = s]
    /\ runningBlocks' = RemoveRunningBlocks(j)
    /\ workerJobs' = [workerJobs EXCEPT ![workerOf[j]] = NoJob]
    /\ runningByTenant' = IF IsActive(j) THEN DecRunning(tenantOf(j), kindOf(j))
                          ELSE runningByTenant
    /\ UNCHANGED <<detail, workerOf, output, pending, registeredJobs, redactionInFlight, pendingBlocks, batches>>

SetJobCompactionOutput(j, out) ==
    /\ output' = [output EXCEPT ![j] = out]
    /\ UNCHANGED <<detail, status, workerOf, pending, indexVars, batches>>

\* Prune: dead jobs have run longer than DeadJobTimeout, old ones ended
\* longer than PruneAge ago.  The index entries of a dead job are removed only
\* where they still name it.
Prune(dead, old) ==
    /\ status' = [j \in JobIDs |-> IF j \in dead THEN "failed"
                                   ELSE IF j \in old THEN "absent" ELSE status[j]]
    /\ workerOf' = [j \in JobIDs |-> IF j \in old THEN NoWorker ELSE workerOf[j]]
    /\ output' = [j \in JobIDs |-> IF j \in old THEN {} ELSE output[j]]
    /\ runningBlocks' = [b \in Blocks |->
                           IF runningBlocks[b] \in dead /\ b \in blocksOf(runningBlocks[b])
                           THEN NoJob ELSE runningBlocks[b]]
    /\ workerJobs' = [w \in Workers |->
                        IF workerJobs[w] \in dead /\ workerOf[workerJobs[w]] = w
                        THEN NoJob ELSE workerJobs[w]]
    /\ runningByTenant' =
         [t \in Tenants |-> [k \in Kinds |->
            LET n == Cardinality(JobsOf(dead, t, k))
            IN  IF runningByTenant[t][k] > n THEN runningByTenant[t][k] - n ELSE 0]]
    /\ UNCHANGED <<detail, pending, registeredJobs, redactionInFlight, pendingBlocks, batches>>

\* AddPendingJobs, of one new redaction job per block of the domain of f.
AddPendingJobs(f, t) ==
    /\ detail' = [j \in JobIDs |->
                    IF \E b \in DOMAIN f : f[b] = j
                    THEN [kind |-> "redaction", tenant |-> t,
                          blocks |-> {b \in DOMAIN f : f[b] = j}, dryRun |-> FALSE]
                    ELSE detail[j]]
    /\ pending' = pending \cup {f[b] : b \in DOMAIN f}
    /\ pendingBlocks' = [b \in Blocks |-> IF b \in DOMAIN f THEN f[b] ELSE pendingBlocks[b]]
    /\ output' = [j \in JobIDs |-> IF \E b \in DOMAIN f : f[b] = j THEN {} ELSE output[j]]
    /\ UNCHANGED <<status, workerOf, registeredJobs, redactionInFlight, runningByTenant, runningBlocks,
                   workerJobs, batches>>

\* Bug: the job stays in its shard's Pending map.
PeekPendingJob(j) ==
    /\ j \in pending
    /\ redactionInFlight' = [redactionInFlight EXCEPT ![tenantOf(j)] = @ + 1]
    /\ UNCHANGED <<jobVars, registeredJobs, runningByTenant, pendingBlocks, runningBlocks, workerJobs, batches>>

\* NextPendingJob: dequeue and count in one critical section, then drop the
\* blocks from the index, whichever job it names for them.
NextPendingJob(j) ==
    /\ j \in pending
    /\ pending' = pending \ {j}
    /\ redactionInFlight' = [redactionInFlight EXCEPT ![tenantOf(j)] = @ + 1]
    /\ pendingBlocks' = [b \in Blocks |-> IF b \in blocksOf(j) THEN NoJob ELSE pendingBlocks[b]]
    /\ UNCHANGED <<detail, status, workerOf, output, registeredJobs, runningByTenant,
                   runningBlocks, workerJobs, batches>>

\* ReleaseRedactionInFlight, for a dequeued job that will not be promoted.
ReleaseRedactionInFlight(t) ==
    /\ redactionInFlight' = DecInFlight(t)
    /\ UNCHANGED <<jobVars, registeredJobs, runningByTenant, pendingBlocks, runningBlocks, workerJobs, batches>>

\* The batch store's mutators.
SetBatch(t, b) ==
    /\ batches' = [batches EXCEPT ![t] = b]
    /\ UNCHANGED <<jobVars, indexVars>>

\* One of the holders, in the order of a map iteration, or NoJob.
AnyHolder(holders) == IF holders = {} THEN {NoJob} ELSE holders

\* rebuildPendingIndexes after a load: st, wo and pend are what the shard
\* files held.
RebuildIndexes(st, wo, pend) ==
    LET running == {j \in JobIDs : st[j] = "running"}
    IN  /\ registeredJobs' = {}
        /\ redactionInFlight' = [t \in Tenants |-> 0]
        /\ runningByTenant' = [t \in Tenants |-> [k \in Kinds |-> Cardinality(JobsOf(running, t, k))]]
        /\ pendingBlocks' \in {pb \in [Blocks -> JobIDs \cup {NoJob}] : \A b \in Blocks :
                                 pb[b] \in AnyHolder({j \in pend : b \in blocksOf(j)})}
        /\ runningBlocks' \in {rb \in [Blocks -> JobIDs \cup {NoJob}] : \A b \in Blocks :
                                 rb[b] \in AnyHolder({j \in running : b \in blocksOf(j)})}
        /\ workerJobs' \in {wj \in [Workers -> JobIDs \cup {NoJob}] : \A w \in Workers :
                              wj[w] \in AnyHolder({j \in running : wo[j] = w})}
-----------------------------------------------------------------------------
\* A RedactionBatch: skipped is SkippedCompactionJobIds, rescan says that
\* RescanAfterUnixNano is set, and quiesce counts the maintenance sweeps up to
\* the one that finds QuiesceUntilUnixNano in the past (0: not set).
Batch == [dryRun : BOOLEAN, skipped : SUBSET JobIDs, rescan : BOOLEAN, quiesce : Nat]

\* GetBatch returns nil when there is none.
ASSUME BatchAssumption == NoBatch \notin Batch

\* Job.Type and Job.JobDetail; dryRun is Redaction.Mode, set by Next.
Detail == [kind : Kinds, tenant : Tenants, blocks : SUBSET Blocks, dryRun : BOOLEAN]

WorkTypeOK ==
    /\ detail \in [JobIDs -> Detail]
    /\ status \in [JobIDs -> Statuses]
    /\ workerOf \in [JobIDs -> Workers \cup {NoWorker}]
    /\ output \in [JobIDs -> SUBSET Blocks]
    /\ pending \in SUBSET JobIDs
    /\ registeredJobs \in SUBSET JobIDs
    /\ redactionInFlight \in [Tenants -> Nat]
    /\ runningByTenant \in [Tenants -> [Kinds -> Nat]]
    /\ pendingBlocks \in [Blocks -> JobIDs \cup {NoJob}]
    /\ runningBlocks \in [Blocks -> JobIDs \cup {NoJob}]
    /\ workerJobs \in [Workers -> JobIDs \cup {NoJob}]
    /\ batches \in [Tenants -> Batch \cup {NoBatch}]

\* The counter HasJobsForTenant reads is the number of jobs a worker holds.
RunningExact ==
    \A t \in Tenants, k \in Kinds : runningByTenant[t][k] = Cardinality(ActiveJobs(t, k))
=============================================================================
