# TLA+ specifications of Tempo's write path, scheduler and request queue

The repository is Grafana Tempo (under `upstream/`). This directory holds TLA+
modules that model the concurrent cores of its write path (block-builder, live-store,
blocklist), of its backend scheduler and of the query-frontend's queue, the TLC
configurations that check them on small instances, and TLAPS proofs of their
invariants for every instance. `PROJECT.json` maps every definition to the lines it
models and lists the runs, the hazards and the findings.

Check a run with `tlc -config Scheduler.cfg MCBackendScheduler`, the proofs with
`tlapm BackendSchedulerProofs.tla`.

## 1. Inventory

| component | state it keeps | operations | how it meets the others |
|---|---|---|---|
| **work cache** (`modules/backendscheduler/work`) | job shards (`Jobs`, `Pending`), redaction batches, and the indexes beside them: registered jobs, in-flight and running counters, busy blocks, worker -> job | AddJob, RegisterJob, CompleteJob, FailJob, Prune, AddPendingJobs, NextPendingJob, flush, load | shared by every goroutine of the scheduler, under shard locks and `pendingMtx` |
| **backend scheduler** (`modules/backendscheduler`) | merged job channel, blocklist, local files | Next, UpdateJob, SubmitRedaction, maintenance tick (prune, rescans, quiescence), start, stop | gRPC from workers and clients |
| **providers** (`provider/`) | the current tenant and selector; a channel each | make compaction and retention jobs, drain pending redactions | register jobs in the work cache, feed the channel |
| **backend worker** (`modules/backendworker`) | the job it executes | ask, execute, report with endless retries | gRPC to the scheduler, object store |
| **block rewriting** (`tempodb`) | blocks and compacted markers in the object store | compact, redact, retain | executed by workers |
| **blocklist and poller** (`tempodb/blocklist`) | per-process lists, local changes since the last poll, the tenant index | update, poll, write or read the index, apply | read by scheduler, workers and queriers |
| **block-builder** (`modules/blockbuilder`) | partition states, the section it consumes, a store per tenant | consume a cycle, flush, commit, allow compaction | Kafka, object store, compaction |
| **live-store instance** (`modules/livestore`) | live traces, head, WAL and complete blocks, their directories, the quarantine | push, cut, complete, flush, delete, stop, reload | partition reader, completion queue, object store in the single binary |
| **partition reader** | position, watermark, committed offset | fetch, consume, commit | Kafka, instance |
| **completion queue** (`pkg/flushqueues`, `live_store_background.go`) | a heap with a key set, active keys, stopped/closing/closed | enqueue, requeue, dequeue, clear, stop | filled by the live-store instance, drained by the complete loops |
| **request queue** (`modules/frontend/queue`, `v1`, `pipeline`) | a queue per tenant, the list of tenants, streams with their batches, channels of the jobs | enqueue, take a batch, answer, retry, clean up, stop | queriers over gRPC streams (`modules/querier/worker`) |
| block selector, redaction window and query | none: pure functions | group blocks; test overlap | used by providers and SubmitRedaction |
| distributor, query sharding, generator, overrides, encodings, TraceQL, caches, storage, command line tools | | | not modelled, see section 8 |

Hard to test, and what the properties are about (`PROJECT.json` "hazards" has each
at its line):

* *two goroutines and a lock given up in between*: a batch added between a
  provider's test and its registration, a rescan between CompleteJob and the
  recording of the output, an enqueue that trades its read lock for a lock, a request that
  arrives between a stream's search and its wait;
* *counters and indexes instead of scans*: HasJobsForTenant reads counters that go up in
  one goroutine and down in another; a tenant's queue knows its spot in a list with holes;
* *lost, late and repeated calls*: a report after the job was declared dead, a commit
  whose answer is lost, an answer to an attempt that was retried;
* *crash and shutdown between two writes*: shard files, block and offset and flag of the
  block-builder, complete block and tombstone and snapshot of the live-store;
* *a list that is older than the store*: changes that overlap a poll, an index another
  process wrote;
* *things that must end*: a batch, an op of the completion queue, backpressure, a section,
  a job of a small tenant, a shutdown.

What makes each part correct:

* work cache: the counters are exact, a job is in one place;
* scheduler: redaction jobs have their batch, a batch ends, a job a worker has is
  known after a crash;
* providers: no two compactions share an input;
* blocklist: what a query found it goes on finding, a compacted block does not come back, the
  scheduler's list settles on the live blocks;
* block-builder: no committed record is missing, none reaches compaction twice, every record
  is committed;
* live-store: a page of the WAL stays on disk and visible until it is old (in the single binary:
  in the object store), a stop drains memory, completion and backpressure end;
* completion queue: one op per block at a time, every op settles, shutdown ends and
  strands nothing;
* request queue: a waiting job is accounted for, no wakeup is lost, no tenant starves.

## 2. Modules

| module | models |
|---|---|
| `Work` | `work.go`, `batch.go`, `job.go`: state and one operator per method |
| `BackendScheduler` | EXTENDS Work; `backendscheduler.go`, the providers, the workers, what they do to the object store, crash and restart |
| `Blocklist` | `list.go`, `poller.go` in the scheduler and the workers, with compaction, retention and reports around them |
| `BlockBuilder` | `blockbuilder.go`, `partition_writer.go`, `tenant_store.go`, with Kafka, compaction and retention around them |
| `SectionRelease` | abstract specification of what the block-builder promises to compaction; BlockBuilder implements it |
| `LiveStore` | `live_store.go`, `instance.go`, `partition_reader.go`, the block lifecycles, crash and replay |
| `CompleteQueue` | the completion queue and its loops |
| `KeyLease` | abstract specification of what the completion queue promises about a block; CompleteQueue implements it |
| `RequestQueue` | the frontend's queue, streams and retries, and the querier's side of a stream |
| `MC...` | constants for TLC and symmetry sets |
| `WorkProofs`, `...Proofs` | lemmas and theorems |

How they compose: BackendScheduler extends Work. BlockBuilder refines SectionRelease and CompleteQueue
KeyLease by INSTANCE. Three seams are stated twice instead of composed, since the product is out of TLC's
reach: CompleteQueue is the set `ops` in LiveStore (what a queue promises, one operation per
block that settles, is what CompleteQueue checks); Blocklist has compaction as one job and
BackendScheduler has the blocklist as a set that a poll replaces; BlockBuilder assumes that
the nocompact flag is honoured, and FlagRespected in Blocklist asks whether it is.

### BackendScheduler

The variables of `Work` are the fields of the `Work` struct and of `Job` under their
own names (`status` is "absent" for an ID that is in no `Jobs` map). The others are

* `piped`: jobs a provider has taken out of `Pending` or registered and Next has not
  received. The provider's hand, its channel, the forwarding goroutine and
  `mergedJobs` are one set, since nothing looks at a job there and any order can come
  out of the merge; `PipeSize` bounds the jobs of one provider;
* `cprov`, `sub[c]`, `calls`, `maint`: where the compaction provider, a
  SubmitRedaction call, an UpdateJob call and the maintenance tick are, and their
  local variables. A handler is split exactly where it has read shared state that
  another goroutine may change before it writes;
* `wk[w]`: a worker process and the result it reports;
* `live`, `blocklist`: unmarked blocks of the object store, and the scheduler's list;
* `disk`: what the shard files and the manifest hold; a failed flush writes any part
  of what it should.

| action | code |
|---|---|
| PrepareNextTenant, NewBlockSelector, CreateJob, ResetTenant, RegisterCompaction | `CompactionProvider.Start`, `prepareNextTenant`, `newBlockSelector`, `createJob` |
| EmitRetentionJob, DrainPending | `emitRetentionJobs`, `RedactionProvider.Start` |
| NextRedeliver, NextDrop, NextAssign | `Next` |
| Execute..., SendReport, LoseReply, WorkerCrash | `processJobs` and what it calls |
| UpdateJobEnd, UpdateJobRecord, UpdateJobApply | `UpdateJob`, cut after CompleteJob/FailJob and before applyJobsToBlocklist |
| SubmitSnapshot, SubmitAddBatch, SubmitEnqueue | `SubmitRedaction`, cut after BlockMetas and after AddBatch |
| MaintenanceTick, RescanBegin, RescanRound, RescanCommit, RescanEnqueue, CleanupOrphanedBatches | the maintenance tick; `performRescan` reads shared state in every round |
| Poll, Restart | `pollBlocklist`; `stopping`, `starting` |

Abstractions:

* A job is its type, tenant, blocks and mode. Trace IDs, time windows and counts of
  redacted traces are left out: requests are unwindowed.
* UNSPECIFIED and RUNNING are one status; Next starts the job it adds.
* `quiesce` counts the sweeps that are left until the deadline, which the code keeps
  as a time; two sweeps is `quiescenceSweeps`.
* A worker's own blocklist may lag: then a job does nothing or rewrites a subset of
  its inputs. That is a free choice of Execute.
* A job's detail is not stored apart in `disk`: it does not change once the job is
  flushed, except for the mode, which Next sets again from the batch.
* The fallback of `loadWorkCache` to the copy in the object store is not modelled; a
  restart reads the local files.
* A worker has one Next call at a time. The handler of a call that timed out may go
  on in the code and assign a second job; that job waits for DeadJobTimeout.
* Time. `Prunable` assumes that PruneAge outlasts RescanDelay (ValidateConfig demands
  it), a handler and a worker's backoff; `Prompt` that SubmitRedaction adds its jobs
  within one maintenance interval of its batch. Both are assumptions, not checks.

### Blocklist

A block of the store has `meta.json`, `meta.compacted.json` or both, since MarkBlockCompacted
copies and then removes. `holds` says which flushed sections a block's traces come from, which
is what a query would find. Each process has `metas`, `compacted`, the four lists of changes in
`pending` and its poll: the listing, the blocks taken over from the previous list, the blocks
read one by one, the write of the index and ApplyPollResults are separate steps. The scheduler
reads the index and lists by itself when it cannot. A compaction takes its inputs from the
scheduler's list and updates its worker's; the report updates the scheduler's. ClearBlock waits
until no list, index or poll has the block as live and every worker has applied a poll that began
after the mark: CompactedBlockRetention is much longer than a poll
(`docs/sources/tempo/operations/compaction.md` tells operators to keep it so). The code compares times
instead; a shorter retention would let one worker clear a block that another still relies on.
Two variables are history: `taken[w]`, the blocks that w's jobs marked and took out of its list, and
`polled[p]`, the blocks that were marked before a poll of p began. One tenant; deleteTenant is left
out.

### BlockBuilder and SectionRelease

`pc` says where the consume loop is, `ps` is the partitionState of consume, `cur` the section,
`flush[t]` the progress of tenantStore.Flush. A section ends after any record (duration, bytes,
end of log, poll timeout), so a retry from the same offset need not cut the same section. A block
ID is what the deterministic generator hashes: tenant, partition, start offset, n-th ID. The flag
is in the store before the block is live, so CreateBlock and WriteBlock are one step.
Fail is possible everywhere; any tenant may have got as far as it likes. Compaction takes blocks
without the flag; `archived` are the records it has rewritten.

SectionRelease has two variables: how far consumption has got, and which records compaction may
take. Under the mapping `done` is the start offset of the committed one and `released` are the
archived records and those of compactable blocks. A crash, a retry, a mark or a write under the flag
is a stutter, a commit is Advance, AllowCompaction is Release.

### LiveStore

One tenant. A record is one trace; records `1 .. stale` are older than CompleteBlockTimeout.
`phase` follows stopping: the reader ends, the cut loops end, the final cut, the background
processes, down. The cut loop (`cutter`), the completions (`building`, `ops`), the flush loop
(`flushq`, `copied`, `marked`), the cleanup (`reclaim`, `expired`) and the reader take their steps
independently. The disk is `data` (traces in flushed pages), `walDir` and `blkDir` (a directory is
absent, live, tombstoned or half written) and `flushed`. A crash keeps the disk, the committed offset
and the object store. `kafka` is chosen once: with Kafka, or the single binary, which pushes directly
and flushes complete blocks itself. Both LocalBlock objects a block can have are told apart, because
a flush marks the one it was queued with.

### CompleteQueue and KeyLease

`opState` says where an op is; `activeKeys`, `stopped`, `closing`, `closed` are the
fields of the two queue types, and `hit` is derived from the heap. The IsStopped test,
LoadOrStore and the push of one enqueue are three steps, as are cancel, `stopped` and
`closing` of a shutdown. Priorities are left out: a loop may take any queued op.

KeyLease has the lease of each key, the keys that were abandoned, the ops that had their answer and how often
each has worked. Under the mapping a key is leased to the op between its LoadOrStore and its Clear; it is
abandoned when it is in `activeKeys` and no such op is left, which is what a give-up and a refused push leave
behind; `tries` are the attempts without the one that is only counted to give up. LoadOrStore is Grant or
Deny, a dequeue is Try or Abandon, Clear is GiveBack; the heap, the backoff and the shutdown flags are stutters.

### RequestQueue

`users` is the list with its free spots, `index` the spot a queue knows, `queued` the channels.
A client is idle, between the two locks of EnqueueRequest, or waiting; `answer` stands for both
channels of a job. A stream is off, about to search, on the condition, or has sent its batch.
An action is what happens under one hold of the RWMutex. `lost` records the jobs of a batch that
Process dropped with an error and without an answer.
A job keeps its identity over retries and a retried job weighs more, as in the code.

## 3. Runs that pass

| run | instance | checks |
|---|---|---|
| `scheduler` | 1 tenant, 2 workers, 3 blocks, 3 jobs, compaction and redaction, no faults | RedactionJobsHaveBatch, CompactionsDisjoint |
| `scheduler_faults` | retention and redaction, up to 3 faults of any kind: crash, shutdown, failed flush, lost reply, worker crash, dead job | TypeOK, CountsExact, JobInOnePlace |
| `scheduler_liveness` | both modes, compaction, a crash or a failed rewrite | WorkersJobIsKnown, BatchEnds |
| `complete_queue` | 3 ops on 2 blocks, 2 loops, 2 attempts | TypeOK, Exclusive, NothingStranded, LeaseSpec, EveryOpSettles, ShutdownCompletes |
| `block_builder` | 2 tenants, 1 partition of 2 records, 3 faults, 4 block IDs per section | TypeOK, Durable, ReleasedOnce, ReleaseSpec, EveryRecordCommitted |
| `live_store` | both modes, 2 records, 2 blocks, blocks of up to 2 traces, 1 stop, crash or I/O error | TypeOK, KeptUntilOld, Served, FlushedBeforeGone, DrainedAtStop, Delivered, EveryRecordConsumed |
| `blocklist` | 2 blocks, 1 worker, the scheduler, 1 fault | TypeOK, NothingHidden, NoRevival |
| `blocklist_liveness` | the same without faults | Converges |
| `request_queue` | 2 tenants, 3 jobs, 1 stream, batches of 2, 1 retry, 1 cancellation or broken stream | TypeOK, SpotsAgree, InOnePlace, Accounted, NoLostWakeup, EveryJobAnswered |

What they show of the code:

* **RedactionJobsHaveBatch**: no redaction job outlives its batch, although the
  batch is removed by looking at counters. Apply-mode requests only: a dry-run batch
  can be removed between AddBatch and AddPendingJobs (with `Modes = {TRUE}` TLC shows
  it). Before a restart only, since batches and shards are flushed apart.
* **CompactionsDisjoint**: the selector's three reads at three times are enough.
  Without crashes: a crash can bring a finished compaction back as running.
* **CountsExact**: neither a late nor a repeated report nor a restart makes a counter
  wrong. One too many would wedge the tenant, one too few end the batch early.
* **JobInOnePlace**: no job is both pending and assigned, in memory or in the files,
  whichever files a crash has cut off.
* **WorkersJobIsKnown**: Next flushes before it replies; so a worker never reports a
  job the restarted scheduler has forgotten, which it would do for ever. Not with dead
  jobs and worker crashes: another call may end the job and Prune remove it while the
  worker still executes it.
* **BatchEnds**: rescans, failed compactions and a crash do not keep a tenant
  without compaction for ever.
* **Durable, ReleasedOnce**: a retry first marks the old blocks compacted and may cut another
  section; the committed offset and the flag are what keeps records from being lost or doubled.
* **ReleaseSpec**: the refinement.
* **KeptUntilOld, Served**: the order complete block, tombstone, snapshot, deferred deletion
  leaves no gap on disk or in the snapshot, also for a block that is completed again after a replay.
* **FlushedBeforeGone, Delivered**: in the single binary the flushed mark, which may be on another
  LocalBlock than the one a query holds, decides about deletion. WAL blocks that are deleted for
  their age before they were completed are exempt: the code drops them.
* **DrainedAtStop, EveryRecordConsumed**: shutdown order, and that backpressure ends. The
  exemptions are what I/O errors do: a failed write drops traces; a WAL block that resetHeadBlock
  kept from being queued stays until a restart and keeps the backpressure up.
* **NothingHidden**: from the copy of an input's meta to the clear of the input, every list that
  found its traces has a block to find them in, the input or an output.
* **NoRevival**: re-applying the local changes once, to the poll they overlap with, is enough for the
  worker that made them. It is stated for that worker and for inputs that were marked: an input whose
  mark failed comes back with the next poll, and another worker's list lags by a poll.
* **Converges**: the scheduler gets outputs only through an index that a worker wrote after them.
* **SpotsAgree, InOnePlace, Accounted, NoLostWakeup, EveryJobAnswered**: the queue under one
  mutex that an enqueue gives up once. The exemptions (`lost`, a stopped queue) are what the code
  does when a batch cannot be built and when an enqueue meets the end of the queue.
* **LeaseSpec**: the refinement. No retry, late enqueue or shutdown lets a second op work on a block that is
  leased or was abandoned, and the attempts of an op are counted over all its retries.
* **Exclusive, NothingStranded, EveryOpSettles, ShutdownCompletes**: see the module.

*Bounds.* Scheduler: two workers are what a late report needs to meet another job; three blocks
are the two inputs of a compaction and its output, which a rescan redacts;
`JobReserve` leaves an ID for the job of that rescan, and the IDs that are used up stop
the providers, not the rest. MaxFaults 3 lets a crash follow a failed flush and a lost
reply. One tenant is enough for TLC since tenants share
only the workers, the pipeline and the files; the proofs are for any number of them.
`complete_queue`: two ops share a block and one does not; two attempts let an op
fail, be retried and be given up. `block_builder`: two records of two tenants give sections with
one, both or none of the tenants, and sections of different length from one offset; three faults
use up four IDs. Partitions share nothing but the order of the loop; the theorems are for
any number. `live_store`: one block is cut and completed while the next fills; MaxLiveTraces 1 and
WalLimit 0 make backpressure happen; one fault at every point. `blocklist`: a compaction needs an input
and an output, and one fault lets any of the steps fail; NoRevival and NothingHidden are proved for any number of workers and blocks. `request_queue`: a tenant with two jobs and
one with one; the one stream is what tenants compete for. A full queue (429) is not reached with
MaxOutstanding 2; the theorems cover it and any number of streams.

*Symmetry* (job IDs, workers, blocks) is used only without liveness; nothing chooses between the
members of these sets except where the choice is nondeterministic.

*Fairness.* Weak fairness for every goroutine's next step: the Go scheduler runs what is
ready. BackendScheduler: strong fairness for a job in the pipeline to be taken by some worker (workers ask
again for ever and a channel receiver does not starve) and for the tick that finds
PruneAge and RescanDelay passed, which in the end they are. BlockBuilder: `running` loops for ever. LiveStore:
every loop, and the process is started again after it went down. Blocklist: pollingLoop ticks, a job that
was started goes on, and the block-builder releases its blocks (without it a fallback poll can delete the
index with the flagged blocks again and again). RequestQueue: clients, queriers that answer and connect
again, and the timer of the service. None for clients that submit, records that arrive, time, or faults, which are
bounded.

*Deadlock* is checked in the scheduler, whose maintenance tick always goes on. Elsewhere a behaviour
may end: all ops settled, all records consumed, the process stopped for good.

## 4. Findings

Each is a run in which TLC finds a counterexample to what a document or a comment says; the quotes are
in `PROJECT.json`.

| run | what happens |
|---|---|
| `blocklist_flag` | the scheduler skips flagged blocks only when it reads the blocks itself; it takes a worker's index, built without looking at the flag, as it is, so a block the block-builder has not released can be compacted |
| `live_store_replay` | the reader commits offsets of records that are only in the live traces; after a crash a live-store with local blocks resumes behind them, and they are not served (the block-builder still has them) |
| `request_queue_stop` | stopping waits for the tenants' queues to be removed, which only the timer does, and the timer has ended: a shutdown within the cleanup period of the last request never ends |

The first one is an assumption of BlockBuilder: with it broken, a block of an aborted attempt can be
compacted and its retry's block as well, so ReleasedOnce holds only as far as the flag is honoured.

The model of the scheduler also shows what its code does not guarantee, and no checked property claims:
a batch can slip in between the compaction provider's second test and RegisterJob; a late report of a job
declared dead deletes the worker's index entry for its next job; a redaction job that is in the channels at
a graceful shutdown is lost; a retention job that Next drops stays registered until a restart; a rescan forgets
a skipped compaction that is not assigned yet, or whose output is not recorded yet; an op that the completion
queue gives up keeps its key.

## 5. Proofs

For every set of tenants, workers, blocks, shards, partitions, streams and jobs, and any bounds:

| module | theorems |
|---|---|
| `BackendSchedulerProofs` | SchedulerCountsExact, SchedulerJobInOnePlace, SchedulerTypeOK |
| `SchedulerSafetyProofs` | SchedulerWorkersJobIsKnown, SchedulerCompactionsDisjoint, SchedulerRedactionJobsHaveBatch |
| `CompleteQueueProofs` | CompleteQueueTypeOK, QueueExclusive, QueueNothingStranded, QueueImplementsLease |
| `BlocklistProofs` | BlocklistTypeOK, BlocklistNoRevival, BlocklistNothingHidden |
| `BlockBuilderProofs` | BuilderTypeOK, BuilderDurable, BuilderReleasedOnce, BuilderImplementsRelease |
| `LiveStoreProofs` | LiveStoreTypeOK, LiveStoreKept, LiveStoreServed, LiveStoreFlushed, LiveStoreDrained |
| `RequestQueueProofs` | QueueTypeOK, QueueSpotsAgree, QueueInOnePlace, QueueAccounted, QueueNoLostWakeup |

Assumptions: `WorkAssumption`, `BatchAssumption`, `SchedulerAssumption`, `CompleteQueueAssumption`, `BoundsAssumption`,
`PartsAssumption`, `LiveStoreAssumption`, `BlocklistAssumption`, `QueueAssumption`, in the modules that declare the
constants; TLC evaluates them in every run. Three theorems say more than `Spec => []P`, because the code
guarantees no more, and in each case TLC shows the property failing without the restriction:

* SchedulerWorkersJobIsKnown assumes that `FaultKinds` has neither "deadJob" nor "worker" (crash, shutdown,
  failed flush, lost reply and backend errors may all be in it). A job declared dead, or ended by the report of
  a worker's earlier process, can be pruned while its worker still executes it.
* SchedulerCompactionsDisjoint is `[](restarted \/ CompactionsDisjoint)`: a crash brings back a compaction whose
  end was not flushed, beside a later one of the same inputs. All other faults are included.
* SchedulerRedactionJobsHaveBatch assumes `TRUE \notin Modes`, that is apply-mode requests: a sweep removes a
  dry-run batch between AddBatch and AddPendingJobs.

**The scheduler's inductive invariant** `SchedulerInv` adds to the three properties what
they need of each other. The in-flight count is exact only if the jobs NextPendingJob
counts are redactions (`PendingAreRedactions`, in memory and on disk, since a restart
loads it) and if a job leaves `piped` once, which is JobInOnePlace: AddJob may only
take a job that is in no `Jobs` map. JobInOnePlace needs that an ID is used once
(`issued`), also for the jobs of a submission that are not pending yet, and that a flush
of *some* shards leaves the files consistent: lemma `FlushedPlaced` shows it shard by
shard, since a job's Pending and Jobs entries are in the same shard file. `DueArmed`
keeps the batch there that a rescan reads, and `CallsAwaited` says that a reply goes to
the worker that waits for it. `WorkProofs` has a lemma per method of the work cache
(what it keeps of the type and of RunningExact); `BackendSchedulerProofs` has a lemma
per action, and the theorems follow from `SchedulerInvariant`.

`SchedulerSafetyProofs` builds on that invariant, one strengthening per theorem:

* `KnownInv`: a worker that executes has its job running, in memory *and* in the files, and no call for it is
  under way (`WorkersKnown`); a call's job is there until the last report is answered (`ReportsKnown`); the
  index entry of a worker names an active job of its own (`IndexOwn`), so that Next redelivers only such a job.
  The part about the files is what a crash needs, and is why Next has to flush before it replies.
* `DisjointInv`: the inputs of a registered or running compaction are in the index of busy blocks under that
  job (`InputsIndexed`); a compaction is registered exactly while it is in the pipeline (`RegisteredPiped`); and
  what the selector can still choose is its tenant's and no such compaction's (`SelectorOwn`, `SelectorFree`).
  The last one survives the other goroutines because only the provider's own starts a compaction.
* `CoveredInv`: a redaction job in play has its batch (`JobsCovered`; a batch ends at zero counts, and CountsExact says
  that there is no such job then); the batch of a
  submission that has not added its jobs yet outlasts the sweeps that can still come before it does
  (`SubmissionsCovered`); a rescan under way has its batch (`RescanCovered`). It is where `quiescenceSweeps` is
  needed: with one sweep instead of two the count runs out between AddBatch and AddPendingJobs.

**The completion queue's** `QueueInv`: an op between LoadOrStore and Clear has its
key in `activeKeys`, two loops hold different ops, and a closed heap is empty. The refinement uses it: by
Exclusive a lease has one op, and since a carried key is active a grant meets neither a lease nor an abandoned
key. `OpMoves` says once what the move of one op does to the leases; every action is then a short case.

**The block-builder's** `BuilderInv` says of every block that its records are its tenant's, from its
start offset on (`BlocksOK`), that what is compactable or archived lies below the
committed offset (`Below`), that the loop's offsets are the committed ones (`PsOK`, `CurOK`: no attempt
starts below the commit, and a section in progress starts at it), and that a flush that is done has
its block live and flagged (`FlushOK`), while all that compaction has of the tenant lies below the section
(`AllowOK`). Then a mark can only hit blocks
above the commit, which is why Durable survives it, and a block gets free of its flag only with records no
other compactable block has, which is ReleasedOnce. The refinement needs both: released records only grow,
because a compactable block is never marked by the builder.

**The live-store's** `BlockInv` is stated block by block (`BlockOK`): what the process knows of a block
implies that it has data and is not the head block; a WAL block's directory has no tombstone; what is
marked flushed has a copy; what is tombstoned or in the quarantine is *disposable*, that is old and, in the
single binary, copied or expired; a finished completion has a live directory. KeptUntilOld, Served and
FlushedBeforeGone follow. `CutInv` carries DrainedAtStop: without faults a pass leaves neither an iterator
nor unflushed rows behind.

**The blocklist's** `BlocklistInv`: a taken block is compacted or gone for good, so a new listing cannot
have it as live; if the poll under way has it, or an earlier change added it, its removal is among the
changes of `pending` (`TakenOK`). That the block is in such a state when it is taken needs that lists, polls
and the index name only blocks that were written (`KnownBlocks`) and that the output of a job is live and
none of its inputs (`JobOK`).

NothingHidden is an action property and needs `KeepInv` beside it. What a marked block holds is in a block that
still has its meta.json, or has been given up (`StoreHolds`; `OutputHolds` while the marking goes on). Per
worker: the list *outlives* the blocks that were marked before its last poll began (`ListHolds`), that is, all
they hold is also in a readable block of the list that is none of them; so clearing one of them hides nothing.
The same holds of the list that the poll under way will leave, which moreover has all that the present list
shows (`PollHolds`); a new listing has it from StoreHolds. That nothing gets lost on the way from the listing to
ApplyPollResults is in `ChangesOK` (a change removes a live block only to add it as compacted, and a compacted
one only when it is gone) and `PollOK` (a block listed as compacted keeps its meta.compacted.json until it is gone,
so pollBlock, which does not look for meta.json then, does not miss it).

**The request queue's** `Inv` adds that only an open queue holds jobs (so the cleanup drops none), only a
stream that has sent has a batch (so Take overwrites none), and a job between the two locks is nowhere
else. Appends, removals of a prefix, free spots and the shortened list rest on lemmas from SequenceTheorems.

*Only model-checked*: liveness (BatchEnds, EveryOpSettles, ShutdownCompletes, EveryRecordCommitted, Delivered,
EveryRecordConsumed, Converges, EveryJobAnswered: fairness and ENABLED are out of the prover's reach).
Every safety property of a passing run is a theorem, within the restrictions above.
What a recursive definition computes for every input could
not be proved either; the weight of a batch is the only one, and no theorem depends on its value.

## 6. Plan

Done: completion queue; work cache, scheduler, providers and workers; block-builder with its abstract
specification; live-store with reader, lifecycles and replay; blocklist and poller; request queue.
Their safety invariants, the action property and the two refinements are proved.

Left:

1. Redaction coverage: which traces a block holds, in BackendScheduler; property that after a batch
   ended no live block holds a redacted trace, with the exceptions section 4 names.
2. The block selector and the redaction window as operators against a reference definition.
3. deleteTenant of the poller against a block that is written meanwhile.

## 7. Layout

A property stands at the end of its module under a comment that names the code it is about.
A definition whose comment begins with "Bug:", "Mutant:" or "Variant:" is a wrong variant of the one
below it, used to show that a property would notice it.

## 8. Not modelled

Distributor, query sharding and combiners, generator and overrides keep no protocol state beyond
libraries or only read; encodings and TraceQL are data; caches, storage backends and the
command line are I/O and wiring. Generated code (`*.pb.go`), vendored code (`upstream/vendor`), examples
and integration tests are not the program's own logic. The scheduler's copy of its work in the
object store (`cache.go`), the redaction query helpers, the concurrency manager of the querier worker
and the live-store's search are left out. The modelled parts are a small share of the repository's
lines: most of these are parquet encodings, the TraceQL engine and generated protobuf code, where
correctness is a matter of data and not of protocol.
