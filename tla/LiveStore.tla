----------------------------- MODULE LiveStore -----------------------------
(***************************************************************************)
(* A live-store (modules/livestore) with one tenant: how a trace moves     *)
(* from the push to the live traces, the head block, a WAL block, a        *)
(* complete block and, in the single binary, the object store, while the   *)
(* partition reader commits Kafka offsets, the cleanup loop deletes what   *)
(* is old, and the process stops, crashes and replays its disk.            *)
(*                                                                         *)
(* A record carries one trace and is its own number.  Records 1 .. stale   *)
(* are older than CompleteBlockTimeout, and a block is old when all its    *)
(* records are.  Records that do not decode or that a tenant limit refuses *)
(* are not records of the model.  An empty head block is not represented:  *)
(* a head block takes its ID with the first trace that is written to it.   *)
(* CompleteQueue models the queue of completions, its retries and its      *)
(* give-up; here ops is the set of blocks that have an operation in it.    *)
(***************************************************************************)
EXTENDS Integers, FiniteSets

CONSTANTS Blocks,          \* block IDs, a finite set of numbers
          MaxRecords,      \* bound: records produced or pushed
          MaxLiveTraces,   \* MaxLiveTracesBytes, in traces
          MaxBlock,        \* MaxBlockBytes, in traces
          WalLimit,        \* walBackpressureLimit
          MaxFaults        \* bound: orderly stops, crashes and I/O errors

ASSUME LiveStoreAssumption == /\ Blocks \subseteq Nat
                              /\ MaxRecords \in Nat
                              /\ MaxLiveTraces \in Nat \ {0}
                              /\ MaxBlock \in Nat \ {0}
                              /\ WalLimit \in Nat
                              /\ MaxFaults \in Nat

VARIABLES kafka,           \* cfg.ConsumeFromKafka; FALSE is the single binary
          phase,           \* up, stopping (reader), cutting (final cut), closing or down
          log,             \* the number of records produced or pushed
          committed,       \* the consumer group's offset, 0 for none
          stale,           \* records up to this one are too old
          reader,          \* PartitionReader: [pos, last, busy, wm, loop]
          live,            \* instance.liveTraces
          iter,            \* instance.liveTracesIter: [open, recs]
          head,            \* instance.headBlock: [id, buf]; its pages are data[id]
          cutter,          \* cutOneInstanceToWal: [pc, drained, wrote, idle]
          data,            \* the traces in the flushed pages of a WAL block
          walDir,          \* the WAL directory of a block: none, live or dead
          blkDir,          \* its complete directory: none, partial, live or dead
          flushed,         \* blocks whose directory has the flushed file
          wal,             \* blockSnapshot.walBlocks
          complete,        \* blockSnapshot.completeBlocks: none, reloaded or completed
          ops,             \* completeQueues
          building,        \* completeBlock: no, writing or written
          flushq,          \* completeBlockQueue: the LocalBlock to flush, or none
          copied,          \* flushes between CopyBlock and SetFlushed
          marked,          \* LocalBlocks <<block, object>> with a flushedTime
          backend,         \* the object store: none, torn or whole
          reclaim,         \* quarantine.entries: <<directory, block>>
          expired,         \* WAL blocks that deleteOldBlocks removed
          stops, faults

logVars == <<kafka, log, stale>>
readVars == <<committed, reader>>
cutVars == <<live, iter, head, cutter>>
diskVars == <<data, walDir, blkDir, flushed>>
snapVars == <<wal, complete>>
buildVars == <<ops, building>>
flushVars == <<flushq, copied, marked, backend>>
cleanVars == <<reclaim, expired>>
vars == <<kafka, phase, log, committed, stale, reader, live, iter, head, cutter, data, walDir,
          blkDir, flushed, wal, complete, ops, building, flushq, copied, marked, backend,
          reclaim, expired, stops, faults>>

Records == 1 .. MaxRecords
NoID == -1
Objects == {"reloaded", "completed"}

NoReader == [pos |-> 0, last |-> 0, busy |-> FALSE, wm |-> 0, loop |-> FALSE]
NoIter == [open |-> FALSE, recs |-> {}]
NoHead == [id |-> NoID, buf |-> {}]
NoCut == [pc |-> "idle", drained |-> FALSE, wrote |-> FALSE, idle |-> FALSE]

Nowhere == [b \in Blocks |-> "none"]
NotBuilding == [b \in Blocks |-> "no"]

Init == /\ kafka \in BOOLEAN
        /\ phase = "down"
        /\ log = 0 /\ committed = 0 /\ stale = 0
        /\ reader = NoReader /\ live = {} /\ iter = NoIter /\ head = NoHead /\ cutter = NoCut
        /\ wal = {} /\ complete = Nowhere
        /\ ops = {} /\ building = NotBuilding
        /\ flushq = Nowhere /\ copied = {} /\ marked = {} /\ reclaim = {}
        /\ data = [b \in Blocks |-> {}]
        /\ walDir = Nowhere /\ blkDir = Nowhere /\ flushed = {}
        /\ backend = Nowhere /\ expired = {}
        /\ stops = 0 /\ faults = 0

\* s.ctx is not cancelled.
Running == phase \in {"up", "stopping", "cutting"}

Fault == stops + faults < MaxFaults /\ faults' = faults + 1

\* BlockMeta().EndTime.Before(cutoff).
Old(b) == data[b] # {} /\ \A r \in data[b] : r <= stale

Larger(m, n) == IF m > n THEN m ELSE n

-----------------------------------------------------------------------------
(* The ingest path. *)

\* A record reaches the partition.
Produce == /\ kafka /\ log < MaxRecords
           /\ log' = log + 1
           /\ UNCHANGED <<kafka, phase, stale, readVars, cutVars, diskVars, snapVars, buildVars,
                          flushVars, cleanVars, stops, faults>>

\* Mutant: the limit itself already holds the push back.
BackpressureAtLimit == Cardinality(live) >= MaxLiveTraces \/ Cardinality(wal) >= WalLimit

\* instance.backpressure
Backpressure == Cardinality(live) >= MaxLiveTraces \/ Cardinality(wal) > WalLimit

\* LiveStore.PushBytes, in the single binary.
PushBytes == /\ ~kafka /\ phase = "up" /\ log < MaxRecords /\ ~Backpressure
             /\ log' = log + 1
             /\ live' = live \cup {log + 1}
             /\ UNCHANGED <<kafka, phase, stale, readVars, iter, head, cutter, diskVars, snapVars,
                            buildVars, flushVars, cleanVars, stops, faults>>

\* Time passes: one more record is older than CompleteBlockTimeout.
Age == /\ stale < log
       /\ stale' = stale + 1
       /\ UNCHANGED <<kafka, phase, log, readVars, cutVars, diskVars, snapVars, buildVars,
                      flushVars, cleanVars, stops, faults>>

\* PartitionReader.running: PollFetches returns the records up to n.
PollFetches(n) == /\ kafka /\ phase = "up" /\ ~reader.busy
                  /\ n > reader.pos /\ n <= log
                  /\ reader' = [reader EXCEPT !.last = n, !.busy = TRUE]
                  /\ UNCHANGED <<logVars, phase, committed, cutVars, diskVars, snapVars,
                                 buildVars, flushVars, cleanVars, stops, faults>>

\* Mutant: consume does not look whether the fetch has another record.
consumeOnward == /\ reader.busy
                 /\ reader' = [reader EXCEPT !.pos = reader.pos + 1]
                 /\ UNCHANGED <<logVars, phase, committed, cutVars, diskVars, snapVars,
                                buildVars, flushVars, cleanVars, stops, faults>>

\* LiveStore.consume, one record: it is dropped when it is too old, and
\* pushBytes drops it too when the reader's context is cancelled.
consume == LET r == reader.pos + 1 IN
           /\ reader.busy /\ reader.pos < reader.last
           /\ reader' = [reader EXCEPT !.pos = r]
           /\ \/ r <= stale /\ live' = live
              \/ r > stale /\ phase = "up" /\ ~Backpressure /\ live' = live \cup {r}
              \/ r > stale /\ phase # "up" /\ live' = live
           /\ UNCHANGED <<logVars, phase, committed, iter, head, cutter, diskVars, snapVars,
                          buildVars, flushVars, cleanVars, stops, faults>>

storeOffsetForCommit == /\ reader.busy /\ reader.pos = reader.last
                        /\ reader' = [reader EXCEPT !.busy = FALSE, !.wm = reader.pos]
                        /\ UNCHANGED <<logVars, phase, committed, cutVars, diskVars, snapVars,
                                       buildVars, flushVars, cleanVars, stops, faults>>

\* commitLoop: a tick, and the last commit once the context is cancelled.  A
\* tick that fails changes nothing.
commitHighWatermark == /\ reader.loop /\ reader.wm > 0
                       /\ committed' = reader.wm
                       /\ IF phase = "up" THEN committed' # committed /\ UNCHANGED reader
                                          ELSE reader' = [reader EXCEPT !.loop = FALSE]
                       /\ UNCHANGED <<logVars, phase, cutVars, diskVars, snapVars, buildVars,
                                      flushVars, cleanVars, stops, faults>>

\* The last commit has nothing to commit, or fails.
commitLoopEnds == /\ reader.loop /\ phase # "up"
                  /\ reader' = [reader EXCEPT !.loop = FALSE]
                  /\ UNCHANGED <<logVars, phase, committed, cutVars, diskVars, snapVars,
                                 buildVars, flushVars, cleanVars, stops, faults>>

-----------------------------------------------------------------------------
(* cutOneInstanceToWal: live traces -> head block -> WAL block. *)

\* A pass ends; the final one, in stopping, is followed by
\* stopAllBackgroundProcesses.
PassEnds == /\ cutter' = NoCut
            /\ phase' = IF phase = "cutting" THEN "closing" ELSE phase

\* cutIdleTraces: pulls an iterator over the idle traces S, unless a pass that
\* broke off left one.  A pass that neither cuts traces nor seals the head block
\* changes nothing and is left out: an idle pass seals.
cutIdleTraces(S) == /\ cutter.pc = "idle" /\ Running
                    /\ phase = "cutting" => S = live
                    /\ phase # "cutting" => iter.open \/ S # {} \/ head.id # NoID
                    /\ iter' = IF iter.open THEN iter ELSE [open |-> TRUE, recs |-> S]
                    /\ live' = IF iter.open THEN live ELSE live \ S
                    /\ cutter' = [pc |-> "cut", drained |-> FALSE, wrote |-> FALSE,
                                   idle |-> ~iter.open /\ S = {}]
                    /\ UNCHANGED <<logVars, phase, readVars, head, diskVars, snapVars,
                                   buildVars, flushVars, cleanVars, stops, faults>>

\* resetHeadBlock takes a new UUID.
NewID == CHOOSE b \in Blocks : data[b] = {}

\* writeHeadBlock; the loop leaves for cutBlocks when the block is full.
writeHeadBlock(r) ==
    LET id == IF head.id = NoID THEN NewID ELSE head.id IN
    /\ cutter.pc = "cut" /\ r \in iter.recs
    /\ head.id = NoID => \E b \in Blocks : data[b] = {}
    /\ head' = [id |-> id, buf |-> head.buf \cup {r}]
    /\ iter' = [iter EXCEPT !.recs = iter.recs \ {r}]
    /\ cutter' = [cutter EXCEPT !.wrote = TRUE,
                     !.pc = IF Cardinality(data[id] \cup (head.buf \cup {r})) >= MaxBlock
                            THEN "seal" ELSE "cut"]
    /\ UNCHANGED <<logVars, phase, readVars, live, diskVars, snapVars, buildVars, flushVars,
                   cleanVars, stops, faults>>

\* A write fails: the trace and the rest of the iterator are gone.
writeFails == /\ cutter.pc = "cut" /\ iter.recs # {} /\ Fault
              /\ iter' = NoIter
              /\ PassEnds
              /\ UNCHANGED <<logVars, readVars, live, head, diskVars, snapVars, buildVars,
                             flushVars, cleanVars, stops>>

\* walBlock.Flush of the head block: the buffered rows become a page.
FlushHead == /\ data' = [data EXCEPT ![head.id] = @ \cup head.buf]
             /\ walDir' = [walDir EXCEPT ![head.id] = "live"]

\* The iterator is exhausted; what was written is flushed.
drained == /\ cutter.pc = "cut" /\ iter.recs = {}
           /\ iter' = NoIter
           /\ cutter' = [cutter EXCEPT !.pc = "seal", !.drained = TRUE]
           /\ IF cutter.wrote /\ head.buf # {}
              THEN FlushHead /\ head' = [head EXCEPT !.buf = {}]
              ELSE UNCHANGED <<data, walDir, head>>
           /\ UNCHANGED <<logVars, phase, readVars, live, blkDir, flushed, snapVars, buildVars,
                          flushVars, cleanVars, stops, faults>>

\* A flush fails, in cutIdleTraces or in cutBlocks: the rows stay buffered.
flushFails == /\ head.buf # {} /\ Fault
              /\ \/ cutter.pc = "cut" /\ iter.recs = {} /\ iter' = NoIter
                 \/ cutter.pc = "seal" /\ iter' = iter
              /\ PassEnds
              /\ UNCHANGED <<logVars, readVars, live, head, diskVars, snapVars, buildVars,
                             flushVars, cleanVars, stops>>

\* The loop of cutOneInstanceToWal, after cutBlocks.
NextRound == IF cutter.drained THEN PassEnds
             ELSE /\ cutter' = [cutter EXCEPT !.pc = "cut", !.wrote = FALSE, !.idle = FALSE]
                  /\ UNCHANGED phase

\* shouldCutHead: always in the final pass, for its size, or for its age.
Full == head.id # NoID /\ Cardinality(data[head.id] \cup head.buf) >= MaxBlock

\* cutBlocks: the final flush, then the head block becomes a WAL block in one
\* snapshot; cutOneInstanceToWal queues it for completion.
cutBlocks == /\ cutter.pc = "seal" /\ head.id # NoID
             /\ FlushHead
             /\ wal' = wal \cup {head.id}
             /\ head' = NoHead
             /\ ops' = ops \cup {head.id}
             /\ NextRound
             /\ UNCHANGED <<logVars, readVars, live, iter, blkDir, flushed, complete, building,
                            flushVars, cleanVars, stops, faults>>

\* resetHeadBlock fails after the swap: the block is not queued.
cutBlocksUnqueued == /\ cutter.pc = "seal" /\ head.id # NoID /\ Fault
                     /\ FlushHead
                     /\ wal' = wal \cup {head.id}
                     /\ head' = NoHead
                     /\ PassEnds
                     /\ UNCHANGED <<logVars, readVars, live, iter, blkDir, flushed, complete,
                                    buildVars, flushVars, cleanVars, stops>>

\* cutBlocks has no reason to cut the head block.
keepHead == /\ cutter.pc = "seal"
            /\ \/ head.id = NoID
               \/ phase # "cutting" /\ ~Full /\ ~cutter.idle
            /\ PassEnds
            /\ UNCHANGED <<logVars, readVars, live, iter, head, diskVars, snapVars, buildVars,
                           flushVars, cleanVars, stops, faults>>

-----------------------------------------------------------------------------
(* processCompleteOp and instance.completeBlock. *)

\* Mutant: onCompletedBlock does nothing, as in Kafka mode.
EnqueueNothing(b, o) == flushq' = flushq

\* localCompleteBlockLifecycle.enqueueBlock: one operation per block.
Enqueue(b, o) == flushq' = IF kafka \/ flushq[b] # "none" THEN flushq
                           ELSE [flushq EXCEPT ![b] = o]

\* Mutant: the WAL block is tombstoned before the complete block is written.
CreateTombstoned(b) == /\ Running /\ b \in ops /\ b \in wal /\ building[b] = "no"
                       /\ building' = [building EXCEPT ![b] = "writing"]
                       /\ blkDir' = [blkDir EXCEPT ![b] = "partial"]
                       /\ walDir' = [walDir EXCEPT ![b] = "dead"]
                       /\ UNCHANGED <<logVars, phase, readVars, cutVars, data, flushed,
                                      snapVars, ops, flushVars, cleanVars, stops, faults>>

\* CreateBlock starts to write the files, over those of a reloaded block.
CreateBlock(b) == /\ Running /\ b \in ops /\ b \in wal /\ building[b] = "no"
                  /\ building' = [building EXCEPT ![b] = "writing"]
                  /\ blkDir' = [blkDir EXCEPT ![b] = IF @ = "dead" THEN "dead" ELSE "partial"]
                  /\ UNCHANGED <<logVars, phase, readVars, cutVars, data, walDir, flushed,
                                 snapVars, ops, flushVars, cleanVars, stops, faults>>

\* CreateBlock has written meta.json, the last of its files.
BlockCreated(b) == /\ building[b] = "writing"
                   /\ building' = [building EXCEPT ![b] = "written"]
                   /\ blkDir' = [blkDir EXCEPT ![b] = IF @ = "dead" THEN "dead" ELSE "live"]
                   /\ UNCHANGED <<logVars, phase, readVars, cutVars, data, walDir, flushed,
                                  snapVars, ops, flushVars, cleanVars, stops, faults>>

\* CreateBlock fails, of itself or because stopAllBackgroundProcesses has
\* cancelled its context: retryCompleteOp keeps the operation.
CreateFails(b) == /\ building[b] = "writing"
                  /\ building' = [building EXCEPT ![b] = "no"]
                  /\ IF Running THEN Fault ELSE UNCHANGED faults
                  /\ UNCHANGED <<logVars, phase, readVars, cutVars, diskVars, snapVars, ops,
                                 flushVars, cleanVars, stops>>

\* Mutant: the swap only takes the WAL block out.
SwapOut(b) == /\ building[b] = "written" /\ b \in wal
              /\ building' = [building EXCEPT ![b] = "no"]
              /\ walDir' = [walDir EXCEPT ![b] = "dead"]
              /\ wal' = wal \ {b}
              /\ reclaim' = reclaim \cup {<<"wal", b>>}
              /\ ops' = ops \ {b}
              /\ UNCHANGED <<logVars, phase, readVars, cutVars, data, blkDir, flushed, complete,
                             flushVars, expired, stops, faults>>

\* The WAL block is tombstoned, the snapshot swapped, the directory left to
\* the quarantine, and the lifecycle told of the new LocalBlock.
Swap(b) == /\ building[b] = "written" /\ b \in wal
           /\ building' = [building EXCEPT ![b] = "no"]
           /\ \/ walDir' = [walDir EXCEPT ![b] = "dead"] /\ UNCHANGED faults
              \/ UNCHANGED walDir /\ Fault
           /\ wal' = wal \ {b}
           /\ complete' = [complete EXCEPT ![b] = "completed"]
           /\ marked' = IF b \in flushed THEN marked \cup {<<b, "completed">>} ELSE marked
           /\ reclaim' = reclaim \cup {<<"wal", b>>}
           /\ ops' = ops \ {b}
           /\ Enqueue(b, "completed")
           /\ UNCHANGED <<logVars, phase, readVars, cutVars, data, blkDir, flushed, copied,
                          backend, expired, stops>>

\* The WAL block disappeared while it was being completed: the complete block
\* is deleted, whoever wrote it first.
Disappeared(b) == /\ building[b] = "written" /\ b \notin wal
                  /\ building' = [building EXCEPT ![b] = "no"]
                  /\ blkDir' = [blkDir EXCEPT ![b] = "none"]
                  /\ flushed' = flushed \ {b}
                  /\ ops' = ops \ {b}
                  /\ IF complete[b] # "none" THEN Enqueue(b, complete[b]) ELSE UNCHANGED flushq
                  /\ UNCHANGED <<logVars, phase, readVars, cutVars, data, walDir, snapVars,
                                 copied, marked, backend, cleanVars, stops, faults>>

\* completeBlock finds no WAL block; a complete block of that ID goes to the
\* lifecycle again.
NothingToComplete(b) == /\ Running /\ b \in ops /\ b \notin wal /\ building[b] = "no"
                        /\ ops' = ops \ {b}
                        /\ IF complete[b] # "none" THEN Enqueue(b, complete[b])
                                                   ELSE UNCHANGED flushq
                        /\ UNCHANGED <<logVars, phase, readVars, cutVars, diskVars, snapVars,
                                       building, copied, marked, backend, cleanVars, stops, faults>>

-----------------------------------------------------------------------------
(* localCompleteBlockLifecycle.runFlushLoop: LocalBlock.Write. *)

\* CopyBlock copies what the directory holds; without files it fails and the
\* operation is requeued.
CopyBlock(b) == /\ Running /\ flushq[b] # "none" /\ b \notin copied /\ blkDir[b] # "none"
                /\ copied' = copied \cup {b}
                /\ backend' = [backend EXCEPT ![b] = IF blkDir[b] = "partial" THEN "torn"
                                                                             ELSE "whole"]
                /\ UNCHANGED <<logVars, phase, readVars, cutVars, diskVars, snapVars, buildVars,
                               flushq, marked, cleanVars, stops, faults>>

\* The flushed file, then the object's flushedTime; runFlushLoop clears the key.
SetFlushed(b) == /\ Running /\ b \in copied
                 /\ copied' = copied \ {b}
                 /\ flushed' = flushed \cup {b}
                 /\ marked' = marked \cup {<<b, flushq[b]>>}
                 /\ flushq' = [flushq EXCEPT ![b] = "none"]
                 /\ UNCHANGED <<logVars, phase, readVars, cutVars, data, walDir, blkDir, snapVars,
                                buildVars, backend, cleanVars, stops, faults>>

\* SetFlushed fails: requeueAfter tries the whole flush again.
FlushFails(b) == /\ Running /\ b \in copied /\ Fault
                 /\ copied' = copied \ {b}
                 /\ UNCHANGED <<logVars, phase, readVars, cutVars, diskVars, snapVars, buildVars,
                                flushq, marked, backend, cleanVars, stops>>

-----------------------------------------------------------------------------
(* perTenantCleanupLoop. *)

\* Mutant: the age alone decides, flushed or not.
shouldDeleteByAge(b) == complete[b] # "none" /\ Old(b)

\* shouldDeleteCompleteBlock, of both lifecycles.
shouldDelete(b) == /\ complete[b] # "none" /\ Old(b)
                   /\ kafka \/ <<b, complete[b]>> \in marked

\* deleteOldBlocks, block by block, the WAL blocks first: an error leaves the
\* rest to the next tick.
deleteOldWAL(b) == /\ Running /\ b \in wal /\ Old(b)
                   /\ walDir' = [walDir EXCEPT ![b] = "dead"]
                   /\ wal' = wal \ {b}
                   /\ reclaim' = reclaim \cup {<<"wal", b>>}
                   /\ expired' = expired \cup {b}
                   /\ UNCHANGED <<logVars, phase, readVars, cutVars, data, blkDir, flushed,
                                  complete, buildVars, flushVars, stops, faults>>

deleteOldComplete(b) == /\ Running /\ shouldDelete(b) /\ \A c \in wal : ~Old(c)
                        /\ blkDir' = [blkDir EXCEPT ![b] = IF @ = "none" THEN "none" ELSE "dead"]
                        /\ complete' = [complete EXCEPT ![b] = "none"]
                        /\ reclaim' = reclaim \cup {<<"complete", b>>}
                        /\ UNCHANGED <<logVars, phase, readVars, cutVars, data, walDir, flushed,
                                       wal, buildVars, flushVars, expired, stops, faults>>

\* quarantine.reclaim, after the grace period.
Reclaim(e) == /\ Running /\ e \in reclaim
              /\ reclaim' = reclaim \ {e}
              /\ IF e[1] = "wal"
                 THEN /\ walDir' = [walDir EXCEPT ![e[2]] = "none"]
                      /\ UNCHANGED <<blkDir, flushed>>
                 ELSE /\ blkDir' = [blkDir EXCEPT ![e[2]] = "none"]
                      /\ flushed' = flushed \ {e[2]}
                      /\ UNCHANGED walDir
              /\ UNCHANGED <<logVars, phase, readVars, cutVars, data, snapVars, buildVars,
                             flushVars, expired, stops, faults>>

-----------------------------------------------------------------------------
(* stopping, a crash, and starting. *)

Stop == /\ phase = "up" /\ stops + faults < MaxFaults
        /\ phase' = "stopping" /\ stops' = stops + 1
        /\ UNCHANGED <<logVars, readVars, cutVars, diskVars, snapVars, buildVars, flushVars,
                       cleanVars, faults>>

\* Mutant: the final cut does not wait for the loop to end its pass.
FinalCutNow == /\ phase = "stopping" /\ ~reader.busy /\ ~reader.loop
               /\ phase' = "cutting"
               /\ UNCHANGED <<logVars, readVars, cutVars, diskVars, snapVars, buildVars, flushVars,
                              cleanVars, stops, faults>>

\* The reader has terminated and stopAllCutToWalLoops has returned.
FinalCut == /\ phase = "stopping" /\ ~reader.busy /\ ~reader.loop /\ cutter.pc = "idle"
            /\ phase' = "cutting"
            /\ UNCHANGED <<logVars, readVars, cutVars, diskVars, snapVars, buildVars, flushVars,
                           cleanVars, stops, faults>>

\* The process is gone, and with it all that it held in memory.
MemoryGone == /\ phase' = "down"
              /\ reader' = NoReader
              /\ live' = {} /\ iter' = NoIter /\ head' = NoHead /\ cutter' = NoCut
              /\ wal' = {} /\ complete' = Nowhere
              /\ ops' = {} /\ building' = NotBuilding
              /\ flushq' = Nowhere /\ copied' = {} /\ marked' = {} /\ reclaim' = {}

\* stopAllBackgroundProcesses has waited for the completions in flight.
Terminated == /\ phase = "closing" /\ \A b \in Blocks : building[b] = "no"
              /\ MemoryGone
              /\ UNCHANGED <<logVars, committed, diskVars, backend, expired, stops, faults>>

Crash == /\ phase # "down" /\ Fault
         /\ MemoryGone
         /\ UNCHANGED <<logVars, committed, diskVars, backend, expired, stops>>

\* What ClearTombstonedBlocks, RescanBlocks and the reload of complete blocks
\* leave: WAL blocks with data and complete blocks with a valid meta.
WalOnDisk == {b \in Blocks : walDir[b] = "live" /\ data[b] # {}}
CompleteOnDisk == {b \in Blocks : blkDir[b] = "live"}

\* shouldForceFromLookback and fetchLastCommittedOffset: without local blocks
\* the reader starts at the lookback offset lb, unless the partition is inactive.
StartOffset(lb, inactive) == IF WalOnDisk \cup CompleteOnDisk = {} /\ ~inactive
                             THEN lb ELSE Larger(committed, lb)

\* starting: reloadBlocks, then deleteOldBlocks, then the reader.
Start == LET oldWal == {b \in WalOnDisk : Old(b)}
             oldComplete == {b \in CompleteOnDisk : Old(b) /\ (kafka \/ b \in flushed)} IN
         /\ phase = "down" /\ phase' = "up"
         /\ walDir' = [b \in Blocks |-> IF b \in oldWal THEN "dead"
                                        ELSE IF b \in WalOnDisk THEN "live" ELSE "none"]
         /\ blkDir' = [b \in Blocks |-> IF b \in oldComplete THEN "dead"
                                        ELSE IF b \in CompleteOnDisk THEN "live" ELSE "none"]
         /\ flushed' = flushed \cap CompleteOnDisk
         /\ wal' = WalOnDisk \ oldWal
         /\ ops' = WalOnDisk
         /\ expired' = expired \cup oldWal
         /\ complete' = [b \in Blocks |-> IF b \in CompleteOnDisk \ oldComplete THEN "reloaded"
                                                                                 ELSE "none"]
         /\ flushq' = [b \in Blocks |-> IF ~kafka /\ b \in CompleteOnDisk \ flushed THEN "reloaded"
                                                                                   ELSE "none"]
         /\ marked' = (CompleteOnDisk \cap flushed) \X {"reloaded"}
         /\ reclaim' = ({"wal"} \X oldWal) \cup ({"complete"} \X oldComplete)
         /\ \E lb \in 0 .. stale, inactive \in BOOLEAN :
               reader' = IF kafka THEN LET p == StartOffset(lb, inactive) IN
                              [pos |-> p, last |-> p, busy |-> FALSE, wm |-> 0, loop |-> TRUE]
                                  ELSE NoReader
         /\ UNCHANGED <<logVars, committed, cutVars, data, building, copied, backend, stops,
                        faults>>

-----------------------------------------------------------------------------
ReaderStep == \/ \E n \in Records : PollFetches(n)
              \/ consume
              \/ storeOffsetForCommit
              \/ commitHighWatermark
              \/ commitLoopEnds

CutterStep == \/ \E S \in SUBSET live : cutIdleTraces(S)
              \/ \E r \in iter.recs : writeHeadBlock(r)
              \/ drained
              \/ cutBlocks
              \/ keepHead

CutterFault == writeFails \/ flushFails \/ cutBlocksUnqueued

CompleteStep(b) == CreateBlock(b) \/ BlockCreated(b) \/ CreateFails(b) \/ Swap(b)
                   \/ Disappeared(b) \/ NothingToComplete(b)

FlushStep(b) == CopyBlock(b) \/ SetFlushed(b) \/ FlushFails(b)

CleanupStep == \/ \E b \in Blocks : deleteOldWAL(b) \/ deleteOldComplete(b)
               \/ \E e \in reclaim : Reclaim(e)

ProcessStep == FinalCut \/ Terminated \/ Start

Environment == Produce \/ PushBytes \/ Age \/ Stop \/ Crash

Next == \/ ReaderStep \/ CutterStep \/ CutterFault \/ CleanupStep \/ ProcessStep \/ Environment
        \/ \E b \in Blocks : CompleteStep(b) \/ FlushStep(b)

Spec == Init /\ [][Next]_vars

\* Every loop of the live-store runs again and again, and a stopped process is
\* started again; nothing makes time pass or records arrive.
FairSpec == /\ Spec
            /\ WF_vars(ReaderStep)
            /\ WF_vars(CutterStep)
            /\ WF_vars(ProcessStep)
            /\ \A b \in Blocks : WF_vars(CompleteStep(b)) /\ WF_vars(FlushStep(b))

-----------------------------------------------------------------------------
\* Every variable has its type.
TypeOK == /\ kafka \in BOOLEAN
          /\ phase \in {"up", "stopping", "cutting", "closing", "down"}
          /\ log \in 0 .. MaxRecords /\ committed \in 0 .. MaxRecords /\ stale \in 0 .. MaxRecords
          /\ reader \in [pos : 0 .. MaxRecords, last : 0 .. MaxRecords, busy : BOOLEAN,
                         wm : 0 .. MaxRecords, loop : BOOLEAN]
          /\ live \in SUBSET Records
          /\ iter \in [open : BOOLEAN, recs : SUBSET Records]
          /\ head \in [id : Blocks \cup {NoID}, buf : SUBSET Records]
          /\ cutter \in [pc : {"idle", "cut", "seal"}, drained : BOOLEAN, wrote : BOOLEAN,
                         idle : BOOLEAN]
          /\ data \in [Blocks -> SUBSET Records]
          /\ walDir \in [Blocks -> {"none", "live", "dead"}]
          /\ blkDir \in [Blocks -> {"none", "partial", "live", "dead"}]
          /\ flushed \in SUBSET Blocks
          /\ wal \in SUBSET Blocks
          /\ complete \in [Blocks -> Objects \cup {"none"}]
          /\ ops \in SUBSET Blocks
          /\ building \in [Blocks -> {"no", "writing", "written"}]
          /\ flushq \in [Blocks -> Objects \cup {"none"}]
          /\ copied \in SUBSET Blocks
          /\ marked \in SUBSET (Blocks \X Objects)
          /\ backend \in [Blocks -> {"none", "torn", "whole"}]
          /\ reclaim \in SUBSET ({"wal", "complete"} \X Blocks)
          /\ expired \in SUBSET Blocks
          /\ stops \in 0 .. MaxFaults /\ faults \in 0 .. MaxFaults

\* What a page of the WAL holds stays on disk, as a WAL block or as a complete
\* block that a replay accepts, until the block is old: no crash between
\* CreateBlock, the tombstone and the deferred Clear loses it
\* (instance.completeBlock, reloadBlocks).
KeptUntilOld == \A b \in Blocks : data[b] # {} /\ ~Old(b) =>
                    walDir[b] = "live" \/ blkDir[b] = "live"

\* A query that loads the snapshot finds every block that has pages and is not
\* old: as the head block, a WAL block or a complete block, also while it moves
\* from one to the next and after a replay (blockSnapshot).
Served == Running => \A b \in Blocks : data[b] # {} /\ ~Old(b) =>
                         b = head.id \/ b \in wal \/ complete[b] # "none"

\* In the single binary no block leaves the disk before the object store has
\* it, unless deleteOldBlocks dropped its WAL block for its age
\* (shouldDeleteCompleteBlock, onReloadedBlock).
FlushedBeforeGone == ~kafka => \A b \in Blocks : data[b] # {} =>
                         \/ walDir[b] = "live" \/ blkDir[b] = "live"
                         \/ backend[b] # "none"
                         \/ b \in expired

\* An orderly stop without I/O errors leaves no trace in memory when the final
\* cut is over (LiveStore.stopping).
DrainedAtStop == phase = "closing" /\ faults = 0 => live \cup iter.recs \cup head.buf = {}

\* A WAL block that was queued becomes a complete block and, in the single
\* binary, reaches the object store, through failed completions and flushes,
\* crashes and restarts, unless deleteOldBlocks drops it for its age
\* (globalCompleteLoop, runFlushLoop, reloadBlocks, onReloadedBlock).
Delivered == \A b \in Blocks : b \in ops ~>
                 \/ b \in expired
                 \/ kafka /\ blkDir[b] \in {"live", "dead"}
                 \/ ~kafka /\ backend[b] # "none"

\* The reader gets past every record: backpressure ends, because the cut loop
\* and the completions that release it do not wait for the reader.  Only a WAL
\* block that cutBlocks could not queue may hold it up (waitBackpressure).
EveryRecordConsumed == \A r \in Records : kafka /\ log >= r ~>
                           reader.pos >= r \/ \E b \in wal : b \notin ops

\* The live-store's documentation: after a restart it "replays from its last
\* committed Kafka offset to rebuild in-memory state".  So the records before
\* the offset at which a restart with local blocks begins to read are on disk,
\* unless they are too old to be served (commitHighWatermark, starting).
RestartRebuilds ==
    [][phase = "down" /\ phase' = "up" /\ kafka /\ WalOnDisk \cup CompleteOnDisk # {} =>
         \A r \in 1 .. reader'.pos : r <= stale \/ \E b \in Blocks : r \in data[b]]_vars
=============================================================================
