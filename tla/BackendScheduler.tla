--------------------------- MODULE BackendScheduler ---------------------------
(***************************************************************************)
(* The backend scheduler (modules/backendscheduler): the providers that    *)
(* make jobs, the Next and UpdateJob handlers the workers call, redaction  *)
(* submission, the maintenance tick, persistence and restart; with the     *)
(* backend workers (modules/backendworker) and the object store they       *)
(* rewrite as the environment.                                             *)
(*                                                                         *)
(* A handler that reads shared state, lets go of the lock and writes later *)
(* is split where another goroutine can change its outcome; the comment of *)
(* each action says what is one step and why.                              *)
(***************************************************************************)
EXTENDS Work

CONSTANTS
    BlockTenant,           \* the tenant a block belongs to
    FirstBlocks,           \* blocks in the backend at the start
    Clients,               \* callers of SubmitRedaction
    Modes,                 \* dry-run flags they may send
    Providers,             \* kinds of job whose provider runs
    MaxRescanGenerations, MinInputBlocks,
    PipeSize,              \* jobs of one provider between NextPendingJob or RegisterJob and Next
    JobReserve,            \* bound: IDs left for the jobs of a rescan
    FaultKinds, MaxFaults  \* the faults that may happen, and how many in all

QuiescenceSweeps == 2

ASSUME SchedulerAssumption ==
    /\ Tenants # {}
    /\ BlockTenant \in [Blocks -> Tenants]
    /\ FirstBlocks \subseteq Blocks
    /\ Modes \subseteq BOOLEAN
    /\ Providers \subseteq Kinds
    /\ MaxRescanGenerations \in Nat \ {0}
    /\ {MinInputBlocks, PipeSize, JobReserve, MaxFaults} \subseteq Nat

VARIABLES
    piped,      \* jobs in a provider's hand, its channel, a forwarder or mergedJobs
    cprov,      \* the compaction provider's goroutine
    sub,        \* the SubmitRedaction call of each client
    calls,      \* UpdateJob calls being handled
    maint,      \* the maintenance tick: where it is, and the rescan it performs
    wk,         \* the worker processes
    live,       \* blocks in the object store that are not marked compacted
    blocklist,  \* the scheduler's in-memory blocklist
    disk,       \* the shard files and the batch manifest
    issued,     \* job IDs used so far
    written,    \* block IDs used so far
    faults, restarted

procVars == <<piped, cprov, sub, calls, maint>>
envVars == <<wk, live, written, faults, restarted>>
vars == <<workVars, procVars, envVars, issued, blocklist, disk>>

IdleProvider(t) == [pc |-> "idle", tenant |-> t, avail |-> {}, input |-> {}]
NoJobs == [b \in {} |-> NoJob]
IdleClient(t) == [pc |-> "idle", tenant |-> t, dryRun |-> FALSE, blocks |-> {}, jobs |-> NoJobs, ticks |-> 0]
IdleWorker == [pc |-> "idle", job |-> NoJob, ok |-> FALSE, out |-> {}]
IdleTick(t) == [pc |-> "idle", due |-> {}, tenant |-> t, ids |-> {}, gen |-> 0, ready |-> {}]

AnyTenant == CHOOSE t \in Tenants : TRUE

\* What a restart reads back.
Snapshot == [status |-> status, workerOf |-> workerOf, output |-> output,
             pending |-> pending, batches |-> batches]

Init ==
    /\ detail = [j \in JobIDs |-> [kind |-> "compaction", tenant |-> AnyTenant, blocks |-> {},
                               dryRun |-> FALSE]]
    /\ status = [j \in JobIDs |-> "absent"]
    /\ workerOf = [j \in JobIDs |-> NoWorker]
    /\ output = [j \in JobIDs |-> {}]
    /\ pending = {} /\ registeredJobs = {}
    /\ redactionInFlight = [t \in Tenants |-> 0]
    /\ runningByTenant = [t \in Tenants |-> [k \in Kinds |-> 0]]
    /\ pendingBlocks = [b \in Blocks |-> NoJob]
    /\ runningBlocks = [b \in Blocks |-> NoJob]
    /\ workerJobs = [w \in Workers |-> NoJob]
    /\ batches = [t \in Tenants |-> NoBatch]
    /\ piped = {} /\ calls = {}
    /\ cprov = IdleProvider(AnyTenant)
    /\ sub = [c \in Clients |-> IdleClient(AnyTenant)]
    /\ maint = IdleTick(AnyTenant)
    /\ wk = [w \in Workers |-> IdleWorker]
    /\ live = FirstBlocks /\ blocklist = FirstBlocks
    /\ disk = Snapshot
    /\ issued = {} /\ written = FirstBlocks
    /\ faults = 0 /\ restarted = FALSE

Fault(kind) == kind \in FaultKinds /\ faults < MaxFaults /\ faults' = faults + 1
NoFault == UNCHANGED faults

\* UUIDs are not used twice.
NewJobs == JobIDs \ issued
NewBlocks(t) == {b \in Blocks \ written : BlockTenant[b] = t}

\* The jobs that may still be made: a bound of the model.
Available(n) == Cardinality(NewJobs) >= n + JobReserve

BlockMetas(t) == {b \in blocklist : BlockTenant[b] = t}
-----------------------------------------------------------------------------
(* Persistence.  FlushToLocal writes whole shards, as they are now; the    *)
(* batch manifest is one file.                                             *)

Flushed(shards, manifest) ==
    [status |-> [j \in JobIDs |-> IF ShardOf[j] \in shards THEN status'[j] ELSE disk.status[j]],
     workerOf |-> [j \in JobIDs |-> IF ShardOf[j] \in shards THEN workerOf'[j] ELSE disk.workerOf[j]],
     output |-> [j \in JobIDs |-> IF ShardOf[j] \in shards THEN output'[j] ELSE disk.output[j]],
     pending |-> {j \in JobIDs : IF ShardOf[j] \in shards THEN j \in pending' ELSE j \in disk.pending},
     batches |-> IF manifest THEN batches' ELSE disk.batches]

\* An empty list of affected jobs flushes every shard.
ShardsOf(ids) == IF ids = {} THEN Shards ELSE {ShardOf[j] : j \in ids}

FlushToLocal(ids) == disk' = Flushed(ShardsOf(ids), FALSE)

\* FlushBatchesToLocal, and then FlushToLocal of some shards: both failures
\* are logged and ignored.  A crash between the two is such a failure, too.
FlushBatches(shards) ==
    \/ disk' = Flushed(shards, TRUE) /\ NoFault
    \/ \E m \in BOOLEAN, S \in SUBSET shards : disk' = Flushed(S, m) /\ Fault("flush")
-----------------------------------------------------------------------------
(* Providers.  The compaction provider gates on TenantPending, reads the   *)
(* blocklist and then the busy blocks, creates jobs from that selection    *)
(* one after the other, checks TenantPending again, registers the job and  *)
(* blocks until the pipeline takes it.                                     *)

Room(k) == Cardinality({j \in piped : kindOf(j) = k}) < PipeSize

\* newBlockSelector, up to store.BlockMetas.
PrepareNextTenant(t) ==
    /\ "compaction" \in Providers
    /\ cprov.pc = "idle"
    /\ ~TenantPending(t)
    /\ Cardinality(BlockMetas(t)) >= MinInputBlocks
    /\ cprov' = [pc |-> "metas", tenant |-> t, avail |-> BlockMetas(t), input |-> {}]
    /\ UNCHANGED <<workVars, piped, sub, calls, maint, envVars, issued, blocklist, disk>>

\* The rest of newBlockSelector: drop the blocks that are busy now.
NewBlockSelector ==
    /\ cprov.pc = "metas"
    /\ cprov' = [cprov EXCEPT !.pc = "select", !.avail = @ \ BusyBlocks(cprov.tenant)]
    /\ UNCHANGED <<workVars, piped, sub, calls, maint, envVars, issued, blocklist, disk>>

\* createJob from what the selector still holds, and the second TenantPending
\* test: one step, since createJob reads only the selector.
CreateJob ==
    /\ cprov.pc = "select"
    /\ ~TenantPending(cprov.tenant)
    /\ \E input \in SUBSET cprov.avail :
         /\ Cardinality(input) >= MinInputBlocks
         /\ cprov' = [cprov EXCEPT !.pc = "created", !.avail = @ \ input, !.input = input]
    /\ UNCHANGED <<workVars, piped, sub, calls, maint, envVars, issued, blocklist, disk>>

\* reset(): a batch was submitted, the selector has nothing more to offer, or
\* MaxJobsPerTenant was reached.
ResetTenant ==
    /\ cprov.pc = "select"
    /\ cprov' = IdleProvider(AnyTenant)
    /\ UNCHANGED <<workVars, piped, sub, calls, maint, envVars, issued, blocklist, disk>>

RegisterCompaction ==
    /\ cprov.pc = "created" /\ Room("compaction") /\ Available(1)
    /\ \E j \in NewJobs :
         /\ RegisterJob(j, [kind |-> "compaction", tenant |-> cprov.tenant,
                            blocks |-> cprov.input, dryRun |-> FALSE])
         /\ piped' = piped \cup {j}
         /\ issued' = issued \cup {j}
    /\ cprov' = [cprov EXCEPT !.pc = "select", !.input = {}]
    /\ UNCHANGED <<sub, calls, maint, envVars, blocklist, disk>>

\* emitRetentionJobs.  Its tests and RegisterJob are one step: Next tests
\* TenantPending again, so a batch that slips in between is met there.
EmitRetentionJob(t) ==
    /\ "retention" \in Providers /\ Room("retention") /\ Available(1)
    /\ BlockMetas(t) # {}
    /\ ~HasJobsForTenant(t, "retention")
    /\ ~TenantPending(t)
    /\ \E j \in NewJobs :
         /\ RegisterJob(j, [kind |-> "retention", tenant |-> t, blocks |-> {}, dryRun |-> FALSE])
         /\ piped' = piped \cup {j}
         /\ issued' = issued \cup {j}
    /\ UNCHANGED <<cprov, sub, calls, maint, envVars, blocklist, disk>>

\* The redaction provider's loop.
DrainPending ==
    /\ Room("redaction")
    /\ \E j \in pending : NextPendingJob(j) /\ piped' = piped \cup {j}
    /\ UNCHANGED <<cprov, sub, calls, maint, envVars, issued, blocklist, disk>>
-----------------------------------------------------------------------------
(* Next.  One step: the redaction batch cannot go away between GetBatch    *)
(* and AddJob while the job is counted in flight, and a batch added after  *)
(* the retention test leaves the state of one added after AddJob.          *)

\* Bug: the job is handed out before its shard is on disk.
DeliverUnflushed(w, j) ==
    \/ /\ UNCHANGED disk /\ NoFault
       /\ wk' = [wk EXCEPT ![w] = [IdleWorker EXCEPT !.pc = "busy", !.job = j]]
    \/ /\ UNCHANGED <<disk, wk>> /\ Fault("reply")

Deliver(w, j) ==
    \/ /\ FlushToLocal({j}) /\ NoFault
       /\ wk' = [wk EXCEPT ![w] = [IdleWorker EXCEPT !.pc = "busy", !.job = j]]
    \/ /\ FlushToLocal({j}) /\ Fault("reply") /\ UNCHANGED wk
    \/ /\ UNCHANGED <<disk, wk>> /\ Fault("flush")

\* A job the worker already has is handed out again.
NextRedeliver(w) ==
    /\ wk[w].pc = "idle"
    /\ GetJobForWorker(w) # NoJob
    /\ UNCHANGED workVars
    /\ Deliver(w, GetJobForWorker(w))
    /\ UNCHANGED <<procVars, live, written, issued, restarted, blocklist>>

\* The precondition of the job no longer holds.  A retention job stays in
\* registeredJobs.
NextDrop(w, j) ==
    /\ wk[w].pc = "idle" /\ GetJobForWorker(w) = NoJob
    /\ j \in piped
    /\ \/ kindOf(j) = "retention" /\ TenantPending(tenantOf(j)) /\ UNCHANGED workVars
       \/ /\ kindOf(j) = "redaction" /\ batches[tenantOf(j)] = NoBatch
          /\ ReleaseRedactionInFlight(tenantOf(j))
    /\ piped' = piped \ {j}
    /\ UNCHANGED <<cprov, sub, calls, maint, envVars, issued, blocklist, disk>>

\* A redaction job gets its batch's mode and selector.
Injected(j) ==
    IF kindOf(j) = "redaction"
    THEN [detail[j] EXCEPT !.dryRun = batches[tenantOf(j)].dryRun] ELSE detail[j]

NextAssign(w, j) ==
    /\ wk[w].pc = "idle" /\ GetJobForWorker(w) = NoJob
    /\ j \in piped
    /\ kindOf(j) = "retention" => ~TenantPending(tenantOf(j))
    /\ kindOf(j) = "redaction" => batches[tenantOf(j)] # NoBatch
    /\ AddJob(j, w, Injected(j))
    /\ piped' = piped \ {j}
    /\ Deliver(w, j)
    /\ UNCHANGED <<cprov, sub, calls, maint, live, written, restarted, issued, blocklist>>
-----------------------------------------------------------------------------
(* The workers.  A worker's own blocklist is polled separately and may     *)
(* miss the blocks of its job: then the job succeeds and does nothing.     *)
(* Its process keeps its worker ID over a crash.                           *)

Finish(w, ok, out) ==
    wk' = [wk EXCEPT ![w] = [@ EXCEPT !.pc = "report", !.ok = ok, !.out = out]]

\* New blocks are written, then old ones are marked compacted.
Rewrite(old, new) ==
    /\ live' = (live \ old) \cup new
    /\ written' = written \cup new

\* CompactWithConfig on the inputs the worker knows, each of which must still
\* exist; marking them compacted may fail for some after the output was
\* written.
ExecuteCompaction(w, j) ==
    /\ kindOf(j) = "compaction"
    /\ \/ \E ok \in BOOLEAN : Finish(w, ok, {}) /\ Rewrite({}, {}) /\ NoFault
       \/ \E src \in SUBSET (blocksOf(j) \cap live) \ {{}}, b \in NewBlocks(tenantOf(j)) :
            \/ Finish(w, TRUE, {b}) /\ Rewrite(src, {b}) /\ NoFault
            \/ \E marked \in SUBSET src \ {src} :
                 Finish(w, FALSE, {}) /\ Rewrite(marked, {b}) /\ Fault("backend")

\* RedactBlock: nothing matches or it cannot be read; or it is replaced by a
\* block without the traces, or by none if no trace is left.  Marking the old
\* block fails when another rewrite was faster: its data is still readable,
\* and the new block is there already.  A dry run never writes.
ExecuteRedaction(w, j) ==
    LET old == blocksOf(j)
    IN  /\ kindOf(j) = "redaction"
        /\ \/ \E ok \in BOOLEAN : Finish(w, ok, {}) /\ Rewrite({}, {}) /\ NoFault
           \/ /\ ~detail[j].dryRun
              /\ \E new \in {{}} \cup {{b} : b \in NewBlocks(tenantOf(j))} :
                   \/ old \subseteq live /\ Finish(w, TRUE, {}) /\ Rewrite(old, new) /\ NoFault
                   \/ /\ Finish(w, FALSE, {}) /\ Rewrite({}, new)
                      /\ IF old \subseteq live THEN Fault("backend") ELSE NoFault

\* retainTenant marks the expired blocks compacted.
ExecuteRetention(w, j) ==
    /\ kindOf(j) = "retention"
    /\ \E expired \in SUBSET {b \in live : BlockTenant[b] = tenantOf(j)} :
         Finish(w, TRUE, {}) /\ Rewrite(expired, {})
    /\ NoFault

Execute(w) ==
    /\ wk[w].pc = "busy"
    /\ \/ ExecuteCompaction(w, wk[w].job)
       \/ ExecuteRedaction(w, wk[w].job)
       \/ ExecuteRetention(w, wk[w].job)
    /\ UNCHANGED <<workVars, procVars, restarted, issued, blocklist, disk>>

\* callSchedulerWithBackoff: call UpdateJob, and call it again after an error.
SendReport(w) ==
    /\ wk[w].pc = "report"
    /\ wk' = [wk EXCEPT ![w].pc = "wait"]
    /\ calls' = calls \cup {[worker |-> w, job |-> wk[w].job, ok |-> wk[w].ok,
                             out |-> wk[w].out, pc |-> "received"]}
    /\ UNCHANGED <<workVars, piped, cprov, sub, maint, live, written, faults, restarted, issued, blocklist, disk>>

\* The worker is cut off from a call that goes on in the scheduler.
Orphaned(w) == {IF c.worker = w THEN [c EXCEPT !.worker = NoWorker] ELSE c : c \in calls}

LoseReply(w) ==
    /\ wk[w].pc = "wait" /\ Fault("reply")
    /\ wk' = [wk EXCEPT ![w].pc = "report"]
    /\ calls' = Orphaned(w)
    /\ UNCHANGED <<workVars, piped, cprov, sub, maint, live, written, restarted, issued, blocklist, disk>>

WorkerCrash(w) ==
    /\ wk[w].pc # "idle" /\ Fault("worker")
    /\ wk' = [wk EXCEPT ![w] = IdleWorker]
    /\ calls' = Orphaned(w)
    /\ UNCHANGED <<workVars, piped, cprov, sub, maint, live, written, restarted, issued, blocklist, disk>>
-----------------------------------------------------------------------------
(* UpdateJob.                                                              *)

Reply(c, ok) ==
    /\ calls' = calls \ {c}
    /\ wk' = IF c.worker = NoWorker THEN wk
             ELSE [wk EXCEPT ![c.worker] = IF ok THEN IdleWorker ELSE [@ EXCEPT !.pc = "report"]]

Proceed(c, pc) == calls' = (calls \ {c}) \cup {[c EXCEPT !.pc = pc]} /\ UNCHANGED wk

UpdateJobEnd(c) ==
    /\ c.pc = "received"
    /\ IF status[c.job] = "absent"
       THEN Reply(c, FALSE) /\ UNCHANGED workVars
       ELSE EndJob(c.job, IF c.ok THEN "succeeded" ELSE "failed") /\ Proceed(c, "ended")
    /\ UNCHANGED <<piped, cprov, sub, maint, live, written, faults, restarted, issued, blocklist, disk>>

\* redactionBatchActive, for a batch record of the tenant.
redactionBatchActive(b, t) == HasJobsForTenant(t, "redaction") \/ b.rescan

\* cleanupBatchIfDone.  Called between two sweeps, or before the sweep of its
\* own tick, it sees one sweep more before the deadline than advanceQuiescence.
cleanupBatchIfDone(b, t) ==
    IF b = NoBatch THEN NoBatch
    ELSE IF redactionBatchActive(b, t) THEN b
    ELSE IF b.dryRun THEN NoBatch
    ELSE IF b.quiesce = 0 THEN [b EXCEPT !.quiesce = QuiescenceSweeps + 1]
    ELSE b

\* The rest up to the blocklist: the compaction output or the batch (a failed
\* flush of the manifest is ignored), and the shard.  A step of its own, since
\* the job already reads as ended.
UpdateJobRecord(c) ==
    LET t == tenantOf(c.job)
        redacted == c.ok /\ kindOf(c.job) = "redaction"
    IN  /\ c.pc = "ended"
        /\ IF redacted THEN SetBatch(t, cleanupBatchIfDone(batches[t], t))
           ELSE IF c.ok /\ kindOf(c.job) = "compaction" /\ c.out # {} /\ status[c.job] # "absent"
           THEN SetJobCompactionOutput(c.job, c.out)
           ELSE UNCHANGED workVars
        /\ \E manifest \in {FALSE, batches' # batches}, saved \in BOOLEAN :
             /\ disk' = Flushed(IF saved THEN {ShardOf[c.job]} ELSE {}, manifest)
             /\ IF saved /\ c.ok THEN Proceed(c, "flushed") ELSE Reply(c, saved)
             /\ IF saved /\ manifest = (batches' # batches) THEN NoFault ELSE Fault("flush")
        /\ UNCHANGED <<piped, cprov, sub, maint, live, written, restarted, issued, blocklist>>

\* applyJobsToBlocklist.
UpdateJobApply(c) ==
    /\ c.pc = "flushed"
    /\ blocklist' = IF kindOf(c.job) = "compaction" /\ status[c.job] = "succeeded"
                    THEN blocklist \ blocksOf(c.job) ELSE blocklist
    /\ Reply(c, TRUE)
    /\ UNCHANGED <<workVars, piped, cprov, sub, maint, live, written, faults, restarted, disk, issued>>
-----------------------------------------------------------------------------
(* SubmitRedaction, for an unwindowed request.                             *)

\* GetBatch and BlockMetas.
SubmitSnapshot(c, t, dryRun) ==
    /\ sub[c].pc = "idle"
    /\ batches[t] = NoBatch /\ BlockMetas(t) # {}
    /\ sub' = [sub EXCEPT ![c] = [pc |-> "metas", tenant |-> t, dryRun |-> dryRun,
                                  blocks |-> BlockMetas(t), jobs |-> NoJobs, ticks |-> 0]]
    /\ UNCHANGED <<workVars, piped, cprov, calls, maint, envVars, issued, blocklist, disk>>

\* One new job per block.
NewJobPerBlock(bs) ==
    {f \in [bs -> NewJobs] : \A b1, b2 \in bs : f[b1] = f[b2] => b1 = b2}

\* BusyBlocksForTenant, the jobs of the free blocks, and AddBatch.  A compaction
\* registered before AddBatch but after BusyBlocksForTenant is as unseen as one
\* registered after it.
SubmitAddBatch(c) ==
    LET t == sub[c].tenant
        busy == sub[c].blocks \cap BusyBlocks(t)
        skipped == {BusyJob(b) : b \in busy}
        free == sub[c].blocks \ busy
        dryRun == sub[c].dryRun
        arm == skipped # {} /\ ~dryRun
    IN  /\ sub[c].pc = "metas"
        /\ IF batches[t] # NoBatch \/ (free = {} /\ dryRun)
           THEN sub' = [sub EXCEPT ![c] = IdleClient(AnyTenant)] /\ UNCHANGED <<workVars, issued>>
           ELSE /\ Available(Cardinality(free))
                /\ SetBatch(t, [dryRun |-> dryRun, skipped |-> IF arm THEN skipped ELSE {},
                                rescan |-> arm, quiesce |-> 0])
                /\ \E f \in NewJobPerBlock(free) :
                     /\ sub' = [sub EXCEPT ![c] = [@ EXCEPT !.pc = "added", !.blocks = {}, !.jobs = f]]
                     /\ issued' = issued \cup {f[b] : b \in free}
        /\ UNCHANGED <<piped, cprov, calls, maint, envVars, blocklist, disk>>

\* AddPendingJobs and the two flushes.
SubmitEnqueue(c) ==
    LET f == sub[c].jobs
    IN  /\ sub[c].pc = "added"
        /\ AddPendingJobs(f, sub[c].tenant)
        /\ FlushBatches(ShardsOf({f[b] : b \in DOMAIN f}))
        /\ sub' = [sub EXCEPT ![c] = IdleClient(AnyTenant)]
        /\ UNCHANGED <<piped, cprov, calls, maint, wk, live, written, restarted, issued, blocklist>>
-----------------------------------------------------------------------------
(* The maintenance tick: Prune, checkPendingRescans, cleanupOrphanedBatches. *)

\* Jobs that ended and are older than PruneAge.  PruneAge exceeds RescanDelay
\* (ValidateConfig), so a compaction a batch waits for is not pruned after it
\* succeeded and before the rescan sees it; it also exceeds MaxBackoff, so a
\* worker that retries its report is not overtaken.
Prunable ==
    {j \in JobIDs :
       /\ status[j] \in {"succeeded", "failed"}
       /\ \A c \in calls : c.job # j
       /\ \A w \in Workers : wk[w].pc \in {"report", "wait"} => wk[w].job # j
       /\ \A t \in Tenants : batches[t] # NoBatch /\ j \in batches[t].skipped
                              => status[j] = "failed"}

\* SubmitRedaction adds its jobs within one MaintenanceInterval of its batch.
Prompt == \A c \in Clients : sub[c].pc = "added" => sub[c].ticks = 0

Armed == {t \in Tenants : batches[t] # NoBatch /\ batches[t].rescan}

\* Prune, and the batches whose rescan delay has passed.
MaintenanceTick(dead, old, due) ==
    /\ maint.pc = "idle" /\ Prompt
    /\ Prune(dead, old)
    /\ IF dead = {} THEN NoFault ELSE Fault("deadJob")
    /\ maint' = [maint EXCEPT !.pc = "sweep", !.due = due]
    /\ sub' = [c \in Clients |-> IF sub[c].pc = "added" THEN [sub[c] EXCEPT !.ticks = 1] ELSE sub[c]]
    /\ UNCHANGED <<piped, cprov, calls, wk, live, written, restarted, issued, blocklist, disk>>

\* performRescan, for one of the batches whose delay has passed.
RescanBegin(t) ==
    /\ maint.pc = "sweep" /\ t \in maint.due
    /\ maint' = [pc |-> "rescan", due |-> maint.due, tenant |-> t,
                 ids |-> batches[t].skipped, gen |-> 0, ready |-> {}]
    /\ UNCHANGED <<workVars, piped, cprov, sub, calls, envVars, issued, blocklist, disk>>

\* Bug: a job that is in no shard is waited for.
RescanWaitsForMissing ==
    LET running == {j \in maint.ids : status[j] # "succeeded"}
        outputs == UNION {output[j] : j \in maint.ids \ running}
    IN  /\ maint.pc = "rescan"
        /\ maint' = [maint EXCEPT !.pc = "commit", !.ids = running, !.ready = @ \cup outputs]
        /\ UNCHANGED <<workVars, piped, cprov, sub, calls, envVars, issued, blocklist, disk>>

\* One round of the loop.  A job that is not in a shard is forgotten; one that
\* failed is taken for running until it is pruned.
RescanRound ==
    LET t == maint.tenant
        listed == {j \in maint.ids : status[j] # "absent"}
        running == {j \in listed : status[j] # "succeeded"}
        outputs == UNION {output[j] : j \in listed \ running}
        busy == outputs \cap BusyBlocks(t)
        next == {BusyJob(b) : b \in busy}
        ready == maint.ready \cup (outputs \ busy)
        round == [maint EXCEPT !.ready = ready]
    IN  /\ maint.pc = "rescan"
        /\ maint' =
             IF running # {} THEN [round EXCEPT !.pc = "commit", !.ids = running \cup next]
             ELSE IF next = {} \/ maint.gen + 1 = MaxRescanGenerations
             THEN [round EXCEPT !.pc = "commit", !.ids = {}]
             ELSE [round EXCEPT !.ids = next, !.gen = @ + 1]
        /\ UNCHANGED <<workVars, piped, cprov, sub, calls, envVars, issued, blocklist, disk>>

\* SetBatchRescan and, if there is no new job, cleanupBatchIfDone, which
\* flushes what it changed, or a flush of the re-armed batch.
RescanCommit ==
    LET t == maint.tenant
        set == IF batches[t] = NoBatch THEN NoBatch
               ELSE [batches[t] EXCEPT !.skipped = maint.ids, !.rescan = maint.ids # {}]
        done == maint.ready = {} /\ maint.ids = {}
        left == maint.due \ {t}
    IN  /\ maint.pc = "commit"
        /\ SetBatch(t, IF done THEN cleanupBatchIfDone(set, t) ELSE set)
        /\ IF maint.ready = {} /\ (maint.ids # {} \/ batches'[t] # set)
           THEN FlushBatches({}) ELSE NoFault /\ UNCHANGED disk
        /\ maint' = IF maint.ready = {} THEN [IdleTick(AnyTenant) EXCEPT !.pc = "sweep", !.due = left]
                    ELSE [maint EXCEPT !.pc = "enqueue", !.due = left]
        /\ UNCHANGED <<piped, cprov, sub, calls, wk, live, written, restarted, issued, blocklist>>

\* AddPendingJobs and the flushes.
RescanEnqueue ==
    /\ maint.pc = "enqueue"
    /\ \E f \in NewJobPerBlock(maint.ready) :
         /\ AddPendingJobs(f, maint.tenant)
         /\ FlushBatches(ShardsOf({f[b] : b \in maint.ready}))
         /\ issued' = issued \cup {f[b] : b \in maint.ready}
    /\ maint' = [IdleTick(AnyTenant) EXCEPT !.pc = "sweep", !.due = maint.due]
    /\ UNCHANGED <<piped, cprov, sub, calls, wk, live, written, restarted, blocklist>>

\* Bug: a batch that never entered quiescence is counted down.
AdvanceUnset(b, t) ==
    IF b = NoBatch THEN NoBatch
    ELSE IF redactionBatchActive(b, t) THEN [b EXCEPT !.quiesce = 0]
    ELSE IF b.dryRun \/ b.quiesce = 1 THEN NoBatch
    ELSE [b EXCEPT !.quiesce = @ - 1]

advanceQuiescence(b, t) ==
    IF b = NoBatch THEN NoBatch
    ELSE IF redactionBatchActive(b, t) THEN [b EXCEPT !.quiesce = 0]
    ELSE IF b.dryRun THEN NoBatch
    ELSE IF b.quiesce = 0 THEN [b EXCEPT !.quiesce = QuiescenceSweeps]
    ELSE IF b.quiesce > 1 THEN [b EXCEPT !.quiesce = @ - 1]
    ELSE NoBatch

\* The sweep over every batch.  In the code the manifest is rewritten only
\* when a batch changed; the model's countdown changes it more often.
CleanupOrphanedBatches ==
    /\ maint.pc = "sweep" /\ maint.due = {}
    /\ batches' = [t \in Tenants |-> advanceQuiescence(batches[t], t)]
    /\ UNCHANGED <<jobVars, indexVars>>
    /\ IF batches' = batches THEN NoFault /\ UNCHANGED disk ELSE FlushBatches({})
    /\ maint' = IdleTick(AnyTenant)
    /\ UNCHANGED <<piped, cprov, sub, calls, wk, live, written, restarted, issued, blocklist>>
-----------------------------------------------------------------------------
(* The blocklist poll, and restarts.                                       *)

Poll ==
    /\ blocklist # live
    /\ blocklist' = live
    /\ UNCHANGED <<workVars, procVars, envVars, disk, issued>>

\* LoadFromLocal and LoadBatchesFromLocal: the files, and the indexes made
\* from them.
LoadFromLocal(d) ==
    /\ status' = d.status /\ workerOf' = d.workerOf /\ output' = d.output
    /\ pending' = d.pending /\ batches' = d.batches
    /\ UNCHANGED detail
    /\ RebuildIndexes(d.status, d.workerOf, d.pending)

\* The inputs of the compactions that succeeded leave the polled blocklist.
replayWorkOnBlocklist(polled, st) ==
    polled \ UNION {blocksOf(j) : j \in {i \in JobIDs : st[i] = "succeeded" /\ kindOf(i) = "compaction"}}

\* The process ends and starts again.  stopping flushes everything first; a
\* crash does not.  Starting polls the blocklist, loads the shards, replays
\* the finished compactions on the blocklist, and loads the batches.
Restart(graceful) ==
    LET d == IF graceful THEN Snapshot ELSE disk
    IN  /\ Fault(IF graceful THEN "shutdown" ELSE "crash")
        /\ disk' = d
        /\ LoadFromLocal(d)
        /\ piped' = {} /\ calls' = {}
        /\ cprov' = IdleProvider(AnyTenant)
        /\ sub' = [c \in Clients |-> IdleClient(AnyTenant)]
        /\ maint' = IdleTick(AnyTenant)
        /\ wk' = [w \in Workers |-> IF wk[w].pc = "wait" THEN [wk[w] EXCEPT !.pc = "report"] ELSE wk[w]]
        /\ blocklist' = replayWorkOnBlocklist(live, d.status)
        /\ restarted' = TRUE
        /\ UNCHANGED <<live, written, issued>>
-----------------------------------------------------------------------------
ProviderStep ==
    \/ \E t \in Tenants : PrepareNextTenant(t)
    \/ NewBlockSelector
    \/ CreateJob
    \/ ResetTenant
    \/ RegisterCompaction
    \/ \E t \in Tenants : EmitRetentionJob(t)
    \/ DrainPending

NextCall(w) == NextRedeliver(w) \/ \E j \in piped : NextDrop(w, j) \/ NextAssign(w, j)

UpdateJob(c) == UpdateJobEnd(c) \/ UpdateJobRecord(c) \/ UpdateJobApply(c)

SubmitRedaction(c) ==
    \/ \E t \in Tenants, m \in Modes : SubmitSnapshot(c, t, m)
    \/ SubmitAddBatch(c)
    \/ SubmitEnqueue(c)

MaintenanceStep ==
    \/ \E dead \in SUBSET {j \in JobIDs : IsActive(j)}, old \in SUBSET Prunable, due \in SUBSET Armed :
         MaintenanceTick(dead, old, due)
    \/ \E t \in Tenants : RescanBegin(t)
    \/ RescanRound
    \/ RescanCommit
    \/ RescanEnqueue
    \/ CleanupOrphanedBatches

Next ==
    \/ ProviderStep
    \/ \E w \in Workers : NextCall(w) \/ Execute(w) \/ SendReport(w) \/ LoseReply(w) \/ WorkerCrash(w)
    \/ \E c \in calls : UpdateJob(c)
    \/ \E c \in Clients : SubmitRedaction(c)
    \/ MaintenanceStep
    \/ Poll
    \/ \E graceful \in BOOLEAN : Restart(graceful)

Spec == Init /\ [][Next]_vars

\* Every goroutine keeps running, a worker keeps asking and executing, and
\* PruneAge and RescanDelay pass in the end.  Nothing makes a client submit,
\* a provider emit, or a fault happen.
Fairness ==
    /\ WF_vars(NewBlockSelector) /\ WF_vars(CreateJob \/ ResetTenant) /\ WF_vars(RegisterCompaction)
    /\ WF_vars(DrainPending)
    /\ \A w \in Workers : WF_vars(Execute(w)) /\ WF_vars(SendReport(w)) /\ WF_vars(NextRedeliver(w))
    /\ \A j \in JobIDs : SF_vars(\E w \in Workers : NextDrop(w, j) \/ NextAssign(w, j))
    /\ WF_vars(\E c \in calls : UpdateJob(c))
    /\ \A c \in Clients : WF_vars(SubmitAddBatch(c)) /\ WF_vars(SubmitEnqueue(c))
    /\ WF_vars(MaintenanceStep)
    /\ SF_vars(MaintenanceTick({}, Prunable, Armed))

FairSpec == Spec /\ Fairness
-----------------------------------------------------------------------------
DiskType == [status : [JobIDs -> Statuses], workerOf : [JobIDs -> Workers \cup {NoWorker}],
             output : [JobIDs -> SUBSET Blocks], pending : SUBSET JobIDs,
             batches : [Tenants -> Batch \cup {NoBatch}]]

CallType == [worker : Workers \cup {NoWorker}, job : JobIDs, ok : BOOLEAN, out : SUBSET Blocks,
             pc : {"received", "ended", "flushed"}]

ProviderType == [pc : {"idle", "metas", "select", "created"}, tenant : Tenants,
                 avail : SUBSET Blocks, input : SUBSET Blocks]

ClientType == [pc : {"idle", "metas", "added"}, tenant : Tenants, dryRun : BOOLEAN, blocks : SUBSET Blocks,
               jobs : UNION {[S -> JobIDs] : S \in SUBSET Blocks}, ticks : {0, 1}]

TickType == [pc : {"idle", "sweep", "rescan", "commit", "enqueue"}, due : SUBSET Tenants,
             tenant : Tenants, ids : SUBSET JobIDs, gen : Nat, ready : SUBSET Blocks]

WorkerType == [pc : {"idle", "busy", "report", "wait"}, job : JobIDs \cup {NoJob},
               ok : BOOLEAN, out : SUBSET Blocks]

ProcTypeOK ==
    /\ piped \in SUBSET JobIDs
    /\ cprov \in ProviderType
    /\ sub \in [Clients -> ClientType]
    /\ calls \in SUBSET CallType
    /\ maint \in TickType

EnvTypeOK ==
    /\ wk \in [Workers -> WorkerType]
    /\ \A w \in Workers : wk[w].pc # "idle" => wk[w].job \in JobIDs
    /\ live \in SUBSET Blocks /\ written \in SUBSET Blocks
    /\ faults \in Nat /\ restarted \in BOOLEAN

\* TypeOK: every variable of the scheduler, its goroutines, the workers and the files
\* keeps its type.
TypeOK ==
    /\ WorkTypeOK /\ ProcTypeOK /\ EnvTypeOK
    /\ issued \in SUBSET JobIDs /\ blocklist \in SUBSET Blocks
    /\ disk \in DiskType

\* HasJobsForTenant reads two counters instead of the shards.  Through lost,
\* late and repeated calls, dead jobs and restarts they stay exact: the
\* in-flight count is the number of dequeued redaction jobs, the running count
\* the number of jobs a worker holds.  One too many wedges the tenant's batch
\* for good, one too few ends it early.
InFlightExact == \A t \in Tenants : redactionInFlight[t] = Cardinality(JobsOf(piped, t, "redaction"))
CountsExact == InFlightExact /\ RunningExact

\* Jobs a SubmitRedaction call has made and not yet enqueued.
Submitting(c) == {sub[c].jobs[b] : b \in DOMAIN sub[c].jobs}

Known(st) == {j \in JobIDs : st[j] # "absent"}

\* A job is in one place: with a submission, in a Pending map, in the
\* pipeline, or in a Jobs map, also in what a crash would read back.  So no
\* block is redacted twice for one batch, and no ID is given to a second job.
JobInOnePlace ==
    /\ pending \cap piped = {}
    /\ (pending \cup piped) \cap Known(status) = {}
    /\ disk.pending \cap Known(disk.status) = {}
    /\ pending \cup piped \cup Known(status) \cup disk.pending \cup Known(disk.status) \subseteq issued
    /\ \A c \in Clients :
         /\ Submitting(c) \subseteq issued \ (pending \cup piped \cup Known(status))
         /\ \A e \in Clients : e # c => Submitting(c) \cap Submitting(e) = {}

\* Why the two hold: only redaction jobs are ever pending, and a batch whose
\* rescan is due stays until performRescan has looked at it.
PendingAreRedactions == \A j \in pending \cup disk.pending : kindOf(j) = "redaction"

DueArmed == \A t \in maint.due : batches[t] # NoBatch /\ batches[t].rescan

\* A worker waits for at most one UpdateJob call, and for the one it sent.
CallsAwaited ==
    \A c \in calls : c.worker \in Workers =>
      wk[c.worker].pc = "wait" /\ \A e \in calls : e.worker = c.worker => e = c

\* The inductive invariant.
SchedulerInv ==
    /\ TypeOK /\ CountsExact /\ JobInOnePlace
    /\ PendingAreRedactions /\ DueArmed /\ CallsAwaited

\* While a redaction job of a tenant is pending, dequeued or running, the
\* tenant's batch, which keeps compaction and retention away, is there.  It
\* holds for apply-mode requests: a sweep may remove a dry-run batch before
\* SubmitRedaction has made its jobs pending.  A restart is left out, since
\* the batches and the shards are flushed apart.
RedactionJobsHaveBatch ==
    \A t \in Tenants :
      /\ ~restarted
      /\ JobsOf(pending \cup piped \cup {j \in JobIDs : IsActive(j)}, t, "redaction") # {}
      => batches[t] # NoBatch

\* No block is the input of two compactions that are registered or running,
\* although the selector reads the blocklist, the busy blocks and the batch at
\* three different times.
CompactionsDisjoint ==
    \A i, j \in {k \in registeredJobs \cup {n \in JobIDs : IsActive(n)} : kindOf(k) = "compaction"} :
      i # j => blocksOf(i) \cap blocksOf(j) = {}

\* The scheduler knows the job of every worker that works on one or reports
\* one, also after a crash: otherwise UpdateJob answers NotFound for ever and
\* the worker, which retries without limit, is lost.
WorkersJobIsKnown == \A w \in Workers : wk[w].pc # "idle" => status[wk[w].job] # "absent"

\* Every redaction batch ends: no lost call, crash or rescan leaves a tenant
\* without compaction for ever.
BatchEnds == \A t \in Tenants : batches[t] # NoBatch ~> batches[t] = NoBatch
=============================================================================
