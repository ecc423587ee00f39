-------------------------- MODULE LiveStoreProofs --------------------------
(***************************************************************************)
(* The safety properties of LiveStore hold for every set of block IDs and  *)
(* every bound.                                                            *)
(***************************************************************************)
EXTENDS LiveStore, TLAPS

\* A block that may leave the disk: it is old and, in the single binary, in the
\* object store or dropped as a WAL block.
Disposable(b) == Old(b) /\ (kafka \/ backend[b] # "none" \/ b \in expired)

\* What the process knows of a block, or deleted, is not the head block.
Known(b) == \/ b \in wal \/ b \in ops \/ building[b] # "no" \/ complete[b] # "none"
            \/ blkDir[b] # "none" \/ b \in expired
            \/ <<"wal", b>> \in reclaim \/ <<"complete", b>> \in reclaim
KnownOK(b) == Known(b) => data[b] # {} /\ b # head.id

\* The directory of a WAL block has no tombstone.
WalOK(b) == b \in wal => walDir[b] = "live"

\* What has the flushed mark, or is about to, has a copy.
CopyOK(b) == /\ b \in flushed => backend[b] # "none"
             /\ b \in copied => backend[b] # "none" /\ flushq[b] # "none"
             /\ \A o \in Objects : <<b, o>> \in marked => backend[b] # "none"

\* Only a disposable block is tombstoned, dropped or left to the quarantine.
DeadOK(b) == blkDir[b] = "dead" => Disposable(b)
ExpiredOK(b) == b \in expired => Old(b)
ReclaimOK(b) == /\ <<"wal", b>> \in reclaim => b \notin wal /\ (blkDir[b] = "live" \/ Disposable(b))
                /\ <<"complete", b>> \in reclaim => Disposable(b)

\* A completion works on a WAL block, or on one that was dropped meanwhile.
BuildOK(b) == /\ building[b] # "no" => b \in wal \/ b \in expired
              /\ building[b] = "written" => blkDir[b] = "live" \/ Disposable(b)

OnDiskOK(b) == data[b] # {} => walDir[b] = "live" \/ blkDir[b] = "live" \/ Disposable(b)

ServedOK(b) == Running /\ data[b] # {} /\ ~Old(b) =>
                   b = head.id \/ b \in wal \/ complete[b] # "none"

BlockOK(b) == /\ KnownOK(b) /\ WalOK(b) /\ CopyOK(b) /\ DeadOK(b) /\ ExpiredOK(b)
              /\ ReclaimOK(b) /\ BuildOK(b) /\ OnDiskOK(b) /\ ServedOK(b)

\* The head block has an ID exactly when it has traces.
HeadOK == /\ head.id = NoID => head.buf = {}
          /\ head.id # NoID => head.buf # {} \/ data[head.id] # {}

\* A process that is down holds nothing.
DownOK == phase = "down" => /\ live = {} /\ iter = NoIter /\ head = NoHead /\ cutter = NoCut
                            /\ building = NotBuilding /\ copied = {}

BlockInv == TypeOK /\ HeadOK /\ DownOK /\ \A b \in Blocks : BlockOK(b)

\* Without faults a pass leaves neither an iterator nor unflushed rows behind.
CutInv == faults = 0 =>
    /\ cutter.pc = "idle" => iter = NoIter /\ head.buf = {}
    /\ cutter.pc = "cut" => iter.open /\ ~cutter.drained /\ (~cutter.wrote => head.buf = {})
    /\ cutter.pc = "seal" /\ cutter.drained => iter = NoIter /\ head.buf = {}
    /\ cutter.pc = "seal" /\ ~cutter.drained => Full /\ iter.open /\ phase # "closing"
    /\ phase \in {"cutting", "closing"} /\ cutter.pc # "idle" => live = {}
    /\ phase = "closing" => live = {} /\ cutter.pc = "idle"

\* The tuples of variables are always expanded.
USE DEF logVars, readVars, cutVars, diskVars, snapVars, buildVars, flushVars, cleanVars

-----------------------------------------------------------------------------
(* Types. *)

LEMMA PushBytesType == ASSUME TypeOK, PushBytes PROVE TypeOK'
  BY LiveStoreAssumption DEF TypeOK, PushBytes, Records, NoID, Objects

LEMMA ProduceType == ASSUME TypeOK, Produce PROVE TypeOK'
  BY LiveStoreAssumption DEF TypeOK, Produce, Records, NoID, Objects

LEMMA AgeType == ASSUME TypeOK, Age PROVE TypeOK'
  BY LiveStoreAssumption DEF TypeOK, Age, Records, NoID, Objects

LEMMA PollFetchesType == ASSUME TypeOK, NEW n \in Records, PollFetches(n) PROVE TypeOK'
  <1>1. reader \in [pos : 0 .. MaxRecords, last : 0 .. MaxRecords, busy : BOOLEAN,
                      wm : 0 .. MaxRecords, loop : BOOLEAN] /\ n \in 0 .. MaxRecords
    BY LiveStoreAssumption DEF TypeOK, Records
  <1>2. reader' = [reader EXCEPT !.last = n, !.busy = TRUE]
    BY DEF PollFetches
  <1>3. reader' \in [pos : 0 .. MaxRecords, last : 0 .. MaxRecords, busy : BOOLEAN,
                      wm : 0 .. MaxRecords, loop : BOOLEAN]
    BY <1>1, <1>2
  <1> QED
    BY <1>1, <1>2, <1>3, LiveStoreAssumption
    DEF TypeOK, PollFetches, Records, NoID, Objects

LEMMA consumeType == ASSUME TypeOK, consume PROVE TypeOK'
  BY LiveStoreAssumption DEF TypeOK, consume, Records, NoID, Objects

LEMMA storeOffsetForCommitType == ASSUME TypeOK, storeOffsetForCommit PROVE TypeOK'
  <1>1. reader' \in [pos : 0 .. MaxRecords, last : 0 .. MaxRecords, busy : BOOLEAN,
                      wm : 0 .. MaxRecords, loop : BOOLEAN]
    BY LiveStoreAssumption DEF TypeOK, storeOffsetForCommit, Records
  <1> QED
    BY <1>1, LiveStoreAssumption
    DEF TypeOK, storeOffsetForCommit, Records, NoID, Objects

LEMMA commitHighWatermarkType == ASSUME TypeOK, commitHighWatermark PROVE TypeOK'
  <1>1. reader \in [pos : 0 .. MaxRecords, last : 0 .. MaxRecords, busy : BOOLEAN,
                      wm : 0 .. MaxRecords, loop : BOOLEAN]
    BY DEF TypeOK
  <1>2. reader' = [reader EXCEPT !.loop = FALSE] \/ reader' = reader
    BY DEF commitHighWatermark
  <1>3. reader' \in [pos : 0 .. MaxRecords, last : 0 .. MaxRecords, busy : BOOLEAN,
                      wm : 0 .. MaxRecords, loop : BOOLEAN]
    BY <1>1, <1>2
  <1> QED
    BY <1>1, <1>2, <1>3, LiveStoreAssumption
    DEF TypeOK, commitHighWatermark, Records, NoID, Objects

LEMMA commitLoopEndsType == ASSUME TypeOK, commitLoopEnds PROVE TypeOK'
  <1>1. reader \in [pos : 0 .. MaxRecords, last : 0 .. MaxRecords, busy : BOOLEAN,
                      wm : 0 .. MaxRecords, loop : BOOLEAN]
    BY DEF TypeOK
  <1>2. reader' = [reader EXCEPT !.loop = FALSE]
    BY DEF commitLoopEnds
  <1>3. reader' \in [pos : 0 .. MaxRecords, last : 0 .. MaxRecords, busy : BOOLEAN,
                      wm : 0 .. MaxRecords, loop : BOOLEAN]
    BY <1>1, <1>2
  <1> QED
    BY <1>1, <1>2, <1>3, LiveStoreAssumption
    DEF TypeOK, commitLoopEnds, Records, NoID, Objects

LEMMA cutIdleTracesType == ASSUME TypeOK, NEW S \in SUBSET live, cutIdleTraces(S) PROVE TypeOK'
  BY LiveStoreAssumption DEF TypeOK, cutIdleTraces, Records, NoID, Objects

LEMMA writeFailsType == ASSUME TypeOK, writeFails PROVE TypeOK'
  BY LiveStoreAssumption DEF TypeOK, writeFails, Fault, PassEnds, NoIter, NoCut, Records, NoID,
                             Objects

LEMMA flushFailsType == ASSUME TypeOK, flushFails PROVE TypeOK'
  <1>1. iter' = NoIter \/ iter' = iter
    BY DEF flushFails
  <1>2. iter' \in [open : BOOLEAN, recs : SUBSET Records]
    <2>1. NoIter \in [open : BOOLEAN, recs : SUBSET Records]
      BY DEF NoIter
    <2> QED BY <1>1, <2>1 DEF TypeOK
  <1> QED
    BY <1>1, <1>2, LiveStoreAssumption
    DEF TypeOK, flushFails, Fault, PassEnds, NoCut, Records, NoID, Objects

LEMMA keepHeadType == ASSUME TypeOK, keepHead PROVE TypeOK'
  BY LiveStoreAssumption DEF TypeOK, keepHead, PassEnds, NoCut, Records, NoID, Objects

LEMMA StopType == ASSUME TypeOK, Stop PROVE TypeOK'
  BY LiveStoreAssumption DEF TypeOK, Stop, Records, NoID, Objects

LEMMA FinalCutType == ASSUME TypeOK, FinalCut PROVE TypeOK'
  BY LiveStoreAssumption DEF TypeOK, FinalCut, Records, NoID, Objects

LEMMA writeHeadBlockType == ASSUME TypeOK, NEW r \in iter.recs, writeHeadBlock(r) PROVE TypeOK'
  <1>1. head.id = NoID => NewID \in Blocks
    BY DEF writeHeadBlock, NewID
  <1>2. iter \in [open : BOOLEAN, recs : SUBSET Records]
        /\ cutter \in [pc : {"idle", "cut", "seal"}, drained : BOOLEAN, wrote : BOOLEAN,
                      idle : BOOLEAN]
    BY DEF TypeOK
  <1>3. head' \in [id : Blocks \cup {NoID}, buf : SUBSET Records]
    BY <1>1, <1>2 DEF TypeOK, writeHeadBlock
  <1>4. iter' = [iter EXCEPT !.recs = iter.recs \ {r}]
    BY DEF writeHeadBlock
  <1>5. iter' \in [open : BOOLEAN, recs : SUBSET Records]
    BY <1>2, <1>4
  <1>6. \E p \in {"cut", "seal"} : cutter' = [cutter EXCEPT !.wrote = TRUE, !.pc = p]
    BY DEF writeHeadBlock
  <1>7. cutter' \in [pc : {"idle", "cut", "seal"}, drained : BOOLEAN, wrote : BOOLEAN,
                      idle : BOOLEAN]
    BY <1>2, <1>6
  <1> QED
    BY <1>1, <1>2, <1>3, <1>4, <1>5, <1>6, <1>7, LiveStoreAssumption
    DEF TypeOK, writeHeadBlock, Records, NoID, Objects

LEMMA drainedType == ASSUME TypeOK, HeadOK, drained PROVE TypeOK'
  <1>1. cutter \in [pc : {"idle", "cut", "seal"}, drained : BOOLEAN, wrote : BOOLEAN,
                      idle : BOOLEAN]
       /\ head \in [id : Blocks \cup {NoID}, buf : SUBSET Records]
    BY DEF TypeOK
  <1>2. cutter' = [cutter EXCEPT !.pc = "seal", !.drained = TRUE]
    BY DEF drained
  <1>3. cutter' \in [pc : {"idle", "cut", "seal"}, drained : BOOLEAN, wrote : BOOLEAN,
                      idle : BOOLEAN]
    BY <1>1, <1>2
  <1>4. head' = [head EXCEPT !.buf = {}] \/ head' = head
    BY DEF drained
  <1>5. head' \in [id : Blocks \cup {NoID}, buf : SUBSET Records]
    BY <1>1, <1>4
  <1>6. data' \in [Blocks -> SUBSET Records] /\ walDir' \in [Blocks -> {"none", "live", "dead"}]
    BY DEF TypeOK, HeadOK, drained, FlushHead, NoID
  <1>7. iter' \in [open : BOOLEAN, recs : SUBSET Records]
    BY DEF drained, NoIter
  <1> QED
    BY <1>1, <1>2, <1>3, <1>4, <1>5, <1>6, <1>7, LiveStoreAssumption
    DEF TypeOK, drained, Records, NoID, Objects

LEMMA cutBlocksType == ASSUME TypeOK, cutBlocks PROVE TypeOK'
  <1>1. cutter \in [pc : {"idle", "cut", "seal"}, drained : BOOLEAN, wrote : BOOLEAN,
                      idle : BOOLEAN]
    BY DEF TypeOK
  <1>2. \/ cutter' = [cutter EXCEPT !.pc = "cut", !.wrote = FALSE, !.idle = FALSE]
       \/ cutter' = NoCut
    BY DEF cutBlocks, NextRound, PassEnds
  <1>3. cutter' \in [pc : {"idle", "cut", "seal"}, drained : BOOLEAN, wrote : BOOLEAN,
                      idle : BOOLEAN]
    <2>1. NoCut \in [pc : {"idle", "cut", "seal"}, drained : BOOLEAN, wrote : BOOLEAN,
                     idle : BOOLEAN]
      BY DEF NoCut
    <2>2. [cutter EXCEPT !.pc = "cut", !.wrote = FALSE, !.idle = FALSE]
             \in [pc : {"idle", "cut", "seal"}, drained : BOOLEAN, wrote : BOOLEAN,
                  idle : BOOLEAN]
      BY <1>1
    <2> QED BY <1>2, <2>1, <2>2
  <1>4. head.id \in Blocks
    BY DEF TypeOK, cutBlocks
  <1>5. head' \in [id : Blocks \cup {NoID}, buf : SUBSET Records]
    BY DEF cutBlocks, NoHead
  <1>6. phase' \in {"up", "stopping", "cutting", "closing", "down"}
    BY DEF TypeOK, cutBlocks, NextRound, PassEnds
  <1>7. data' \in [Blocks -> SUBSET Records] /\ walDir' \in [Blocks -> {"none", "live", "dead"}]
    BY <1>4 DEF TypeOK, cutBlocks, FlushHead
  <1> QED
    BY <1>1, <1>2, <1>3, <1>4, <1>5, <1>6, <1>7, LiveStoreAssumption
    DEF TypeOK, cutBlocks, Records, NoID, Objects

LEMMA cutBlocksUnqueuedType == ASSUME TypeOK, cutBlocksUnqueued PROVE TypeOK'
  <1>1. cutter \in [pc : {"idle", "cut", "seal"}, drained : BOOLEAN, wrote : BOOLEAN,
                      idle : BOOLEAN]
    BY DEF TypeOK
  <1>2. \/ cutter' = [cutter EXCEPT !.pc = "cut", !.wrote = FALSE, !.idle = FALSE]
       \/ cutter' = NoCut
    BY DEF cutBlocksUnqueued, NextRound, PassEnds
  <1>3. cutter' \in [pc : {"idle", "cut", "seal"}, drained : BOOLEAN, wrote : BOOLEAN,
                      idle : BOOLEAN]
    <2>1. NoCut \in [pc : {"idle", "cut", "seal"}, drained : BOOLEAN, wrote : BOOLEAN,
                     idle : BOOLEAN]
      BY DEF NoCut
    <2>2. [cutter EXCEPT !.pc = "cut", !.wrote = FALSE, !.idle = FALSE]
             \in [pc : {"idle", "cut", "seal"}, drained : BOOLEAN, wrote : BOOLEAN,
                  idle : BOOLEAN]
      BY <1>1
    <2> QED BY <1>2, <2>1, <2>2
  <1>4. head.id \in Blocks
    BY DEF TypeOK, cutBlocksUnqueued
  <1>5. head' \in [id : Blocks \cup {NoID}, buf : SUBSET Records]
    BY DEF cutBlocksUnqueued, NoHead
  <1>6. phase' \in {"up", "stopping", "cutting", "closing", "down"}
    BY DEF TypeOK, cutBlocksUnqueued, NextRound, PassEnds
  <1>7. data' \in [Blocks -> SUBSET Records] /\ walDir' \in [Blocks -> {"none", "live", "dead"}]
    BY <1>4 DEF TypeOK, cutBlocksUnqueued, FlushHead
  <1> QED
    BY <1>1, <1>2, <1>3, <1>4, <1>5, <1>6, <1>7, LiveStoreAssumption
    DEF TypeOK, cutBlocksUnqueued, Fault, Records, NoID, Objects

LEMMA CreateBlockType == ASSUME TypeOK, NEW b \in Blocks, CreateBlock(b) PROVE TypeOK'
  BY LiveStoreAssumption DEF TypeOK, CreateBlock, Records, NoID, Objects

LEMMA BlockCreatedType == ASSUME TypeOK, NEW b \in Blocks, BlockCreated(b) PROVE TypeOK'
  BY LiveStoreAssumption DEF TypeOK, BlockCreated, Records, NoID, Objects

LEMMA CreateFailsType == ASSUME TypeOK, NEW b \in Blocks, CreateFails(b) PROVE TypeOK'
  BY LiveStoreAssumption DEF TypeOK, CreateFails, Fault, Records, NoID, Objects

LEMMA SwapType == ASSUME TypeOK, NEW b \in Blocks, Swap(b) PROVE TypeOK'
  BY LiveStoreAssumption DEF TypeOK, Swap, Enqueue, Fault, Records, NoID, Objects

LEMMA DisappearedType == ASSUME TypeOK, NEW b \in Blocks, Disappeared(b) PROVE TypeOK'
  BY LiveStoreAssumption DEF TypeOK, Disappeared, Enqueue, Records, NoID, Objects

LEMMA NothingToCompleteType == ASSUME TypeOK, NEW b \in Blocks, NothingToComplete(b) PROVE TypeOK'
  BY LiveStoreAssumption DEF TypeOK, NothingToComplete, Enqueue, Records, NoID, Objects

LEMMA CopyBlockType == ASSUME TypeOK, NEW b \in Blocks, CopyBlock(b) PROVE TypeOK'
  BY LiveStoreAssumption DEF TypeOK, CopyBlock, Records, NoID, Objects

LEMMA SetFlushedType == ASSUME TypeOK, NEW b \in Blocks, CopyOK(b), SetFlushed(b) PROVE TypeOK'
  BY LiveStoreAssumption DEF TypeOK, CopyOK, SetFlushed, Records, NoID, Objects

LEMMA FlushFailsType == ASSUME TypeOK, NEW b \in Blocks, FlushFails(b) PROVE TypeOK'
  BY LiveStoreAssumption DEF TypeOK, FlushFails, Fault, Records, NoID, Objects

LEMMA deleteOldWALType == ASSUME TypeOK, NEW b \in Blocks, deleteOldWAL(b) PROVE TypeOK'
  BY LiveStoreAssumption DEF TypeOK, deleteOldWAL, Records, NoID, Objects

LEMMA deleteOldCompleteType == ASSUME TypeOK, NEW b \in Blocks, deleteOldComplete(b) PROVE TypeOK'
  BY LiveStoreAssumption DEF TypeOK, deleteOldComplete, shouldDelete, Records, NoID, Objects

LEMMA ReclaimType == ASSUME TypeOK, NEW e \in reclaim, Reclaim(e) PROVE TypeOK'
  <1>1. e[2] \in Blocks
    BY DEF TypeOK
  <1>2. walDir' \in [Blocks -> {"none", "live", "dead"}]
    BY <1>1 DEF TypeOK, Reclaim
  <1>3. blkDir' \in [Blocks -> {"none", "partial", "live", "dead"}]
    BY <1>1 DEF TypeOK, Reclaim
  <1>4. reclaim' \in SUBSET ({"wal", "complete"} \X Blocks) /\ flushed' \in SUBSET Blocks
    BY DEF TypeOK, Reclaim
  <1> QED
    BY <1>1, <1>2, <1>3, <1>4, LiveStoreAssumption
    DEF TypeOK, Reclaim, Records, NoID, Objects

LEMMA TerminatedType == ASSUME TypeOK, Terminated PROVE TypeOK'
  BY LiveStoreAssumption DEF TypeOK, Terminated, MemoryGone, NoReader, NoIter, NoHead, NoCut,
                             Nowhere, NotBuilding, Records, NoID, Objects

LEMMA CrashType == ASSUME TypeOK, Crash PROVE TypeOK'
  BY LiveStoreAssumption DEF TypeOK, Crash, MemoryGone, NoReader, NoIter, NoHead, NoCut,
                             Nowhere, NotBuilding, Fault, Records, NoID, Objects

LEMMA StartType == ASSUME TypeOK, Start PROVE TypeOK'
  <1>1. reader' \in [pos : 0 .. MaxRecords, last : 0 .. MaxRecords, busy : BOOLEAN,
                      wm : 0 .. MaxRecords, loop : BOOLEAN]
    <2>1. committed \in 0 .. MaxRecords /\ stale \in 0 .. MaxRecords
      BY DEF TypeOK
    <2>2. \A lb \in 0 .. stale, i \in BOOLEAN : StartOffset(lb, i) \in 0 .. MaxRecords
      BY <2>1, LiveStoreAssumption DEF StartOffset, Larger
    <2>3. NoReader \in [pos : 0 .. MaxRecords, last : 0 .. MaxRecords, busy : BOOLEAN,
                        wm : 0 .. MaxRecords, loop : BOOLEAN]
      BY LiveStoreAssumption DEF NoReader
    <2>4. \E lb \in 0 .. stale, i \in BOOLEAN :
             reader' = IF kafka THEN LET p == StartOffset(lb, i) IN
                            [pos |-> p, last |-> p, busy |-> FALSE, wm |-> 0, loop |-> TRUE]
                                ELSE NoReader
      BY DEF Start
    <2> QED BY <2>2, <2>3, <2>4, LiveStoreAssumption
  <1>2. WalOnDisk \in SUBSET Blocks /\ CompleteOnDisk \in SUBSET Blocks
    BY DEF WalOnDisk, CompleteOnDisk
  <1>3. marked' \in SUBSET (Blocks \X Objects)
    BY <1>2 DEF Start, Objects
  <1>4. reclaim' \in SUBSET ({"wal", "complete"} \X Blocks)
    BY <1>2 DEF Start
  <1>5. /\ walDir' \in [Blocks -> {"none", "live", "dead"}]
       /\ blkDir' \in [Blocks -> {"none", "partial", "live", "dead"}]
       /\ complete' \in [Blocks -> Objects \cup {"none"}]
       /\ flushq' \in [Blocks -> Objects \cup {"none"}]
    BY DEF Start, Objects
  <1>6. /\ flushed' \in SUBSET Blocks /\ wal' \in SUBSET Blocks
       /\ ops' \in SUBSET Blocks /\ expired' \in SUBSET Blocks
    BY <1>2 DEF TypeOK, Start
  <1> QED
    BY <1>1, <1>2, <1>3, <1>4, <1>5, <1>6, LiveStoreAssumption
    DEF TypeOK, Start, Records, NoID, Objects

-----------------------------------------------------------------------------
(* A step that leaves a block alone keeps what holds of it. *)

Same(b) == /\ data'[b] = data[b] /\ walDir'[b] = walDir[b] /\ blkDir'[b] = blkDir[b]
           /\ complete'[b] = complete[b] /\ building'[b] = building[b]
           /\ flushq'[b] = flushq[b] /\ backend'[b] = backend[b]
           /\ b \in wal' <=> b \in wal
           /\ b \in ops' <=> b \in ops
           /\ b \in flushed' <=> b \in flushed
           /\ b \in copied' <=> b \in copied
           /\ b \in expired' <=> b \in expired
           /\ \A o \in Objects : <<b, o>> \in marked' <=> <<b, o>> \in marked
           /\ \A d \in {"wal", "complete"} : <<d, b>> \in reclaim' <=> <<d, b>> \in reclaim
           /\ kafka' = kafka /\ stale <= stale'
           /\ Running' => Running
           /\ b = head'.id <=> b = head.id

LEMMA SameOK == ASSUME TypeOK, TypeOK', NEW b \in Blocks, BlockOK(b), Same(b)
                PROVE  BlockOK(b)'
  <1>1. Old(b) => Old(b)'
    <2>1. data[b] \in SUBSET Records /\ stale \in Int /\ stale' \in Int
      BY DEF TypeOK
    <2> QED BY <2>1 DEF Old, Same, Records
  <1>2. Disposable(b) => Disposable(b)'
    BY <1>1 DEF Disposable, Same
  <1>3. KnownOK(b)' /\ WalOK(b)'
    BY DEF BlockOK, KnownOK, Known, WalOK, Same
  <1>4. CopyOK(b)'
    BY DEF BlockOK, CopyOK, Same
  <1>5. DeadOK(b)' /\ ExpiredOK(b)' /\ BuildOK(b)' /\ OnDiskOK(b)'
    BY <1>1, <1>2 DEF BlockOK, DeadOK, ExpiredOK, BuildOK, OnDiskOK, Same
  <1>6. ReclaimOK(b)'
    BY <1>2 DEF BlockOK, ReclaimOK, Same
  <1>7. ServedOK(b)'
    BY <1>1 DEF BlockOK, ServedOK, Same
  <1> QED BY <1>3, <1>4, <1>5, <1>6, <1>7 DEF BlockOK

LEMMA CreateBlockRest == ASSUME TypeOK, NEW b \in Blocks, CreateBlock(b), NEW c \in Blocks, c # b
    PROVE  Same(c)
  BY DEF TypeOK, Same, CreateBlock, Running

LEMMA CreateBlockBlock == ASSUME TypeOK, TypeOK', NEW b \in Blocks, BlockOK(b), CreateBlock(b)
    PROVE  BlockOK(b)'
  <1>1. Old(b)' = Old(b) /\ (Running' <=> Running) /\ data'[b] = data[b] /\ head' = head
        /\ kafka' = kafka
    BY DEF CreateBlock, Old, Running
  <1>2. KnownOK(b)' /\ WalOK(b)'
    BY <1>1 DEF TypeOK, BlockOK, KnownOK, Known, WalOK, BuildOK, CreateBlock, Running
  <1>3. CopyOK(b)'
    BY <1>1 DEF TypeOK, BlockOK, CopyOK, Objects, CreateBlock, Running
  <1>4. DeadOK(b)' /\ ExpiredOK(b)'
    BY <1>1 DEF TypeOK, BlockOK, DeadOK, ExpiredOK, Disposable, CopyOK, CreateBlock, Running
  <1>5. ReclaimOK(b)'
    BY <1>1 DEF TypeOK, BlockOK, ReclaimOK, BuildOK, ExpiredOK, Disposable, CopyOK,
                CreateBlock, Running
  <1>6. BuildOK(b)'
    BY <1>1 DEF TypeOK, BlockOK, BuildOK, DeadOK, WalOK, Disposable, CreateBlock, Running
  <1>7. OnDiskOK(b)'
    BY <1>1 DEF TypeOK, BlockOK, OnDiskOK, BuildOK, WalOK, ExpiredOK, CopyOK, Disposable,
                CreateBlock, Running
  <1>8. ServedOK(b)'
    BY <1>1 DEF TypeOK, BlockOK, ServedOK, CreateBlock, Running
  <1> QED BY <1>2, <1>3, <1>4, <1>5, <1>6, <1>7, <1>8 DEF BlockOK

LEMMA BlockCreatedRest ==
    ASSUME TypeOK, NEW b \in Blocks, BlockCreated(b), NEW c \in Blocks, c # b
    PROVE  Same(c)
  BY DEF TypeOK, Same, BlockCreated, Running

LEMMA BlockCreatedBlock == ASSUME TypeOK, TypeOK', NEW b \in Blocks, BlockOK(b), BlockCreated(b)
    PROVE  BlockOK(b)'
  <1>1. Old(b)' = Old(b) /\ (Running' <=> Running) /\ data'[b] = data[b] /\ head' = head
        /\ kafka' = kafka
    BY DEF BlockCreated, Old, Running
  <1>2. KnownOK(b)' /\ WalOK(b)'
    BY <1>1 DEF TypeOK, BlockOK, KnownOK, Known, WalOK, BuildOK, BlockCreated, Running
  <1>3. CopyOK(b)'
    BY <1>1 DEF TypeOK, BlockOK, CopyOK, Objects, BlockCreated, Running
  <1>4. DeadOK(b)' /\ ExpiredOK(b)'
    BY <1>1 DEF TypeOK, BlockOK, DeadOK, ExpiredOK, Disposable, CopyOK, BlockCreated, Running
  <1>5. ReclaimOK(b)'
    BY <1>1 DEF TypeOK, BlockOK, ReclaimOK, BuildOK, ExpiredOK, Disposable, CopyOK,
                BlockCreated, Running
  <1>6. BuildOK(b)'
    BY <1>1 DEF TypeOK, BlockOK, BuildOK, DeadOK, WalOK, Disposable, BlockCreated, Running
  <1>7. OnDiskOK(b)'
    BY <1>1 DEF TypeOK, BlockOK, OnDiskOK, BuildOK, WalOK, ExpiredOK, CopyOK, Disposable,
                BlockCreated, Running
  <1>8. ServedOK(b)'
    BY <1>1 DEF TypeOK, BlockOK, ServedOK, BlockCreated, Running
  <1> QED BY <1>2, <1>3, <1>4, <1>5, <1>6, <1>7, <1>8 DEF BlockOK

LEMMA CreateFailsRest == ASSUME TypeOK, NEW b \in Blocks, CreateFails(b), NEW c \in Blocks, c # b
    PROVE  Same(c)
  BY DEF TypeOK, Same, CreateFails, Running

LEMMA CreateFailsBlock == ASSUME TypeOK, TypeOK', NEW b \in Blocks, BlockOK(b), CreateFails(b)
    PROVE  BlockOK(b)'
  <1>1. Old(b)' = Old(b) /\ (Running' <=> Running) /\ data'[b] = data[b] /\ head' = head
        /\ kafka' = kafka
    BY DEF CreateFails, Old, Running
  <1>2. KnownOK(b)' /\ WalOK(b)'
    BY <1>1 DEF TypeOK, BlockOK, KnownOK, Known, WalOK, BuildOK, CreateFails, Running
  <1>3. CopyOK(b)'
    BY <1>1 DEF TypeOK, BlockOK, CopyOK, Objects, CreateFails, Running
  <1>4. DeadOK(b)' /\ ExpiredOK(b)'
    BY <1>1 DEF TypeOK, BlockOK, DeadOK, ExpiredOK, Disposable, CopyOK, CreateFails, Running
  <1>5. ReclaimOK(b)'
    BY <1>1 DEF TypeOK, BlockOK, ReclaimOK, BuildOK, ExpiredOK, Disposable, CopyOK,
                CreateFails, Running
  <1>6. BuildOK(b)'
    BY <1>1 DEF TypeOK, BlockOK, BuildOK, DeadOK, WalOK, Disposable, CreateFails, Running
  <1>7. OnDiskOK(b)'
    BY <1>1 DEF TypeOK, BlockOK, OnDiskOK, BuildOK, WalOK, ExpiredOK, CopyOK, Disposable,
                CreateFails, Running
  <1>8. ServedOK(b)'
    BY <1>1 DEF TypeOK, BlockOK, ServedOK, CreateFails, Running
  <1> QED BY <1>2, <1>3, <1>4, <1>5, <1>6, <1>7, <1>8 DEF BlockOK

LEMMA SwapRest == ASSUME TypeOK, NEW b \in Blocks, Swap(b), NEW c \in Blocks, c # b
    PROVE  Same(c)
  BY DEF TypeOK, Same, Swap, Enqueue, Running

LEMMA SwapBlock == ASSUME TypeOK, TypeOK', NEW b \in Blocks, BlockOK(b), Swap(b)
    PROVE  BlockOK(b)'
  <1>1. Old(b)' = Old(b) /\ (Running' <=> Running) /\ data'[b] = data[b] /\ head' = head
        /\ kafka' = kafka
    BY DEF Swap, Old, Running
  <1>2. KnownOK(b)' /\ WalOK(b)'
    BY <1>1 DEF TypeOK, BlockOK, KnownOK, Known, WalOK, BuildOK, Swap, Enqueue, Running
  <1>3. CopyOK(b)'
    BY <1>1 DEF TypeOK, BlockOK, CopyOK, Objects, Swap, Enqueue, Running
  <1>4. DeadOK(b)' /\ ExpiredOK(b)'
    BY <1>1 DEF TypeOK, BlockOK, DeadOK, ExpiredOK, Disposable, CopyOK, Swap, Enqueue, Running
  <1>5. ReclaimOK(b)'
    BY <1>1 DEF TypeOK, BlockOK, ReclaimOK, BuildOK, ExpiredOK, Disposable, CopyOK, Swap,
                Enqueue, Running
  <1>6. BuildOK(b)'
    BY <1>1 DEF TypeOK, BlockOK, BuildOK, DeadOK, WalOK, Disposable, Swap, Enqueue, Running
  <1>7. OnDiskOK(b)'
    BY <1>1 DEF TypeOK, BlockOK, OnDiskOK, BuildOK, WalOK, ExpiredOK, CopyOK, Disposable, Swap,
                Enqueue, Running
  <1>8. ServedOK(b)'
    BY <1>1 DEF TypeOK, BlockOK, ServedOK, Swap, Enqueue, Running
  <1> QED BY <1>2, <1>3, <1>4, <1>5, <1>6, <1>7, <1>8 DEF BlockOK

LEMMA DisappearedRest == ASSUME TypeOK, NEW b \in Blocks, Disappeared(b), NEW c \in Blocks, c # b
    PROVE  Same(c)
  BY DEF TypeOK, Same, Disappeared, Enqueue, Running

LEMMA DisappearedBlock == ASSUME TypeOK, TypeOK', NEW b \in Blocks, BlockOK(b), Disappeared(b)
    PROVE  BlockOK(b)'
  <1>1. Old(b)' = Old(b) /\ (Running' <=> Running) /\ data'[b] = data[b] /\ head' = head
        /\ kafka' = kafka
    BY DEF Disappeared, Old, Running
  <1>2. KnownOK(b)' /\ WalOK(b)'
    BY <1>1 DEF TypeOK, BlockOK, KnownOK, Known, WalOK, BuildOK, Disappeared, Enqueue, Running
  <1>3. CopyOK(b)'
    BY <1>1 DEF TypeOK, BlockOK, CopyOK, Objects, Disappeared, Enqueue, Running
  <1>4. DeadOK(b)' /\ ExpiredOK(b)'
    BY <1>1 DEF TypeOK, BlockOK, DeadOK, ExpiredOK, Disposable, CopyOK, Disappeared, Enqueue,
                Running
  <1>5. ReclaimOK(b)'
    BY <1>1 DEF TypeOK, BlockOK, ReclaimOK, BuildOK, ExpiredOK, Disposable, CopyOK,
                Disappeared, Enqueue, Running
  <1>6. BuildOK(b)'
    BY <1>1 DEF TypeOK, BlockOK, BuildOK, DeadOK, WalOK, Disposable, Disappeared, Enqueue, Running
  <1>7. OnDiskOK(b)'
    BY <1>1 DEF TypeOK, BlockOK, OnDiskOK, BuildOK, WalOK, ExpiredOK, CopyOK, Disposable,
                Disappeared, Enqueue, Running
  <1>8. ServedOK(b)'
    BY <1>1 DEF TypeOK, BlockOK, ServedOK, Disappeared, Enqueue, Running
  <1> QED BY <1>2, <1>3, <1>4, <1>5, <1>6, <1>7, <1>8 DEF BlockOK

LEMMA NothingToCompleteRest ==
    ASSUME TypeOK, NEW b \in Blocks, NothingToComplete(b), NEW c \in Blocks, c # b
    PROVE  Same(c)
  BY DEF TypeOK, Same, NothingToComplete, Enqueue, Running

LEMMA NothingToCompleteBlock ==
    ASSUME TypeOK, TypeOK', NEW b \in Blocks, BlockOK(b), NothingToComplete(b)
    PROVE  BlockOK(b)'
  <1>1. Old(b)' = Old(b) /\ (Running' <=> Running) /\ data'[b] = data[b] /\ head' = head
        /\ kafka' = kafka
    BY DEF NothingToComplete, Old, Running
  <1>2. KnownOK(b)' /\ WalOK(b)'
    BY <1>1 DEF TypeOK, BlockOK, KnownOK, Known, WalOK, BuildOK, NothingToComplete, Enqueue,
                Running
  <1>3. CopyOK(b)'
    BY <1>1 DEF TypeOK, BlockOK, CopyOK, Objects, NothingToComplete, Enqueue, Running
  <1>4. DeadOK(b)' /\ ExpiredOK(b)'
    BY <1>1 DEF TypeOK, BlockOK, DeadOK, ExpiredOK, Disposable, CopyOK, NothingToComplete,
                Enqueue, Running
  <1>5. ReclaimOK(b)'
    BY <1>1 DEF TypeOK, BlockOK, ReclaimOK, BuildOK, ExpiredOK, Disposable, CopyOK,
                NothingToComplete, Enqueue, Running
  <1>6. BuildOK(b)'
    BY <1>1 DEF TypeOK, BlockOK, BuildOK, DeadOK, WalOK, Disposable, NothingToComplete,
                Enqueue, Running
  <1>7. OnDiskOK(b)'
    BY <1>1 DEF TypeOK, BlockOK, OnDiskOK, BuildOK, WalOK, ExpiredOK, CopyOK, Disposable,
                NothingToComplete, Enqueue, Running
  <1>8. ServedOK(b)'
    BY <1>1 DEF TypeOK, BlockOK, ServedOK, NothingToComplete, Enqueue, Running
  <1> QED BY <1>2, <1>3, <1>4, <1>5, <1>6, <1>7, <1>8 DEF BlockOK

LEMMA CopyBlockRest == ASSUME TypeOK, NEW b \in Blocks, CopyBlock(b), NEW c \in Blocks, c # b
    PROVE  Same(c)
  BY DEF TypeOK, Same, CopyBlock, Running

LEMMA CopyBlockBlock == ASSUME TypeOK, TypeOK', NEW b \in Blocks, BlockOK(b), CopyBlock(b)
    PROVE  BlockOK(b)'
  <1>1. Old(b)' = Old(b) /\ (Running' <=> Running) /\ data'[b] = data[b] /\ head' = head
        /\ kafka' = kafka
    BY DEF CopyBlock, Old, Running
  <1>2. KnownOK(b)' /\ WalOK(b)'
    BY <1>1 DEF TypeOK, BlockOK, KnownOK, Known, WalOK, BuildOK, CopyBlock, Running
  <1>3. CopyOK(b)'
    BY <1>1 DEF TypeOK, BlockOK, CopyOK, Objects, CopyBlock, Running
  <1>4. DeadOK(b)' /\ ExpiredOK(b)'
    BY <1>1 DEF TypeOK, BlockOK, DeadOK, ExpiredOK, Disposable, CopyOK, CopyBlock, Running
  <1>5. ReclaimOK(b)'
    BY <1>1 DEF TypeOK, BlockOK, ReclaimOK, BuildOK, ExpiredOK, Disposable, CopyOK, CopyBlock,
                Running
  <1>6. BuildOK(b)'
    BY <1>1 DEF TypeOK, BlockOK, BuildOK, DeadOK, WalOK, Disposable, CopyBlock, Running
  <1>7. OnDiskOK(b)'
    BY <1>1 DEF TypeOK, BlockOK, OnDiskOK, BuildOK, WalOK, ExpiredOK, CopyOK, Disposable,
                CopyBlock, Running
  <1>8. ServedOK(b)'
    BY <1>1 DEF TypeOK, BlockOK, ServedOK, CopyBlock, Running
  <1> QED BY <1>2, <1>3, <1>4, <1>5, <1>6, <1>7, <1>8 DEF BlockOK

LEMMA SetFlushedRest == ASSUME TypeOK, NEW b \in Blocks, SetFlushed(b), NEW c \in Blocks, c # b
    PROVE  Same(c)
  BY DEF TypeOK, Same, SetFlushed, Running

LEMMA SetFlushedBlock == ASSUME TypeOK, TypeOK', NEW b \in Blocks, BlockOK(b), SetFlushed(b)
    PROVE  BlockOK(b)'
  <1>1. Old(b)' = Old(b) /\ (Running' <=> Running) /\ data'[b] = data[b] /\ head' = head
        /\ kafka' = kafka
    BY DEF SetFlushed, Old, Running
  <1>2. KnownOK(b)' /\ WalOK(b)'
    BY <1>1 DEF TypeOK, BlockOK, KnownOK, Known, WalOK, BuildOK, SetFlushed, Running
  <1>3. CopyOK(b)'
    BY <1>1 DEF TypeOK, BlockOK, CopyOK, Objects, SetFlushed, Running
  <1>4. DeadOK(b)' /\ ExpiredOK(b)'
    BY <1>1 DEF TypeOK, BlockOK, DeadOK, ExpiredOK, Disposable, CopyOK, SetFlushed, Running
  <1>5. ReclaimOK(b)'
    BY <1>1 DEF TypeOK, BlockOK, ReclaimOK, BuildOK, ExpiredOK, Disposable, CopyOK, SetFlushed,
                Running
  <1>6. BuildOK(b)'
    BY <1>1 DEF TypeOK, BlockOK, BuildOK, DeadOK, WalOK, Disposable, SetFlushed, Running
  <1>7. OnDiskOK(b)'
    BY <1>1 DEF TypeOK, BlockOK, OnDiskOK, BuildOK, WalOK, ExpiredOK, CopyOK, Disposable,
                SetFlushed, Running
  <1>8. ServedOK(b)'
    BY <1>1 DEF TypeOK, BlockOK, ServedOK, SetFlushed, Running
  <1> QED BY <1>2, <1>3, <1>4, <1>5, <1>6, <1>7, <1>8 DEF BlockOK

LEMMA FlushFailsRest == ASSUME TypeOK, NEW b \in Blocks, FlushFails(b), NEW c \in Blocks, c # b
    PROVE  Same(c)
  BY DEF TypeOK, Same, FlushFails, Running

LEMMA FlushFailsBlock == ASSUME TypeOK, TypeOK', NEW b \in Blocks, BlockOK(b), FlushFails(b)
    PROVE  BlockOK(b)'
  <1>1. Old(b)' = Old(b) /\ (Running' <=> Running) /\ data'[b] = data[b] /\ head' = head
        /\ kafka' = kafka
    BY DEF FlushFails, Old, Running
  <1>2. KnownOK(b)' /\ WalOK(b)'
    BY <1>1 DEF TypeOK, BlockOK, KnownOK, Known, WalOK, BuildOK, FlushFails, Running
  <1>3. CopyOK(b)'
    BY <1>1 DEF TypeOK, BlockOK, CopyOK, Objects, FlushFails, Running
  <1>4. DeadOK(b)' /\ ExpiredOK(b)'
    BY <1>1 DEF TypeOK, BlockOK, DeadOK, ExpiredOK, Disposable, CopyOK, FlushFails, Running
  <1>5. ReclaimOK(b)'
    BY <1>1 DEF TypeOK, BlockOK, ReclaimOK, BuildOK, ExpiredOK, Disposable, CopyOK, FlushFails,
                Running
  <1>6. BuildOK(b)'
    BY <1>1 DEF TypeOK, BlockOK, BuildOK, DeadOK, WalOK, Disposable, FlushFails, Running
  <1>7. OnDiskOK(b)'
    BY <1>1 DEF TypeOK, BlockOK, OnDiskOK, BuildOK, WalOK, ExpiredOK, CopyOK, Disposable,
                FlushFails, Running
  <1>8. ServedOK(b)'
    BY <1>1 DEF TypeOK, BlockOK, ServedOK, FlushFails, Running
  <1> QED BY <1>2, <1>3, <1>4, <1>5, <1>6, <1>7, <1>8 DEF BlockOK

LEMMA deleteOldWALRest ==
    ASSUME TypeOK, NEW b \in Blocks, deleteOldWAL(b), NEW c \in Blocks, c # b
    PROVE  Same(c)
  BY DEF TypeOK, Same, deleteOldWAL, Running

LEMMA deleteOldWALBlock == ASSUME TypeOK, TypeOK', NEW b \in Blocks, BlockOK(b), deleteOldWAL(b)
    PROVE  BlockOK(b)'
  <1>1. Old(b)' = Old(b) /\ (Running' <=> Running) /\ data'[b] = data[b] /\ head' = head
        /\ kafka' = kafka
    BY DEF deleteOldWAL, Old, Running
  <1>2. KnownOK(b)' /\ WalOK(b)'
    BY <1>1 DEF TypeOK, BlockOK, KnownOK, Known, WalOK, BuildOK, deleteOldWAL, Running
  <1>3. CopyOK(b)'
    BY <1>1 DEF TypeOK, BlockOK, CopyOK, Objects, deleteOldWAL, Running
  <1>4. DeadOK(b)' /\ ExpiredOK(b)'
    BY <1>1 DEF TypeOK, BlockOK, DeadOK, ExpiredOK, Disposable, CopyOK, deleteOldWAL, Running
  <1>5. ReclaimOK(b)'
    BY <1>1 DEF TypeOK, BlockOK, ReclaimOK, BuildOK, ExpiredOK, Disposable, CopyOK,
                deleteOldWAL, Running
  <1>6. BuildOK(b)'
    BY <1>1 DEF TypeOK, BlockOK, BuildOK, DeadOK, WalOK, Disposable, deleteOldWAL, Running
  <1>7. OnDiskOK(b)'
    BY <1>1 DEF TypeOK, BlockOK, OnDiskOK, BuildOK, WalOK, ExpiredOK, CopyOK, Disposable,
                deleteOldWAL, Running
  <1>8. ServedOK(b)'
    BY <1>1 DEF TypeOK, BlockOK, ServedOK, deleteOldWAL, Running
  <1> QED BY <1>2, <1>3, <1>4, <1>5, <1>6, <1>7, <1>8 DEF BlockOK

LEMMA deleteOldCompleteRest ==
    ASSUME TypeOK, NEW b \in Blocks, deleteOldComplete(b), NEW c \in Blocks, c # b
    PROVE  Same(c)
  BY DEF TypeOK, Same, deleteOldComplete, shouldDelete, Running

LEMMA deleteOldCompleteBlock ==
    ASSUME TypeOK, TypeOK', NEW b \in Blocks, BlockOK(b), deleteOldComplete(b)
    PROVE  BlockOK(b)'
  <1>1. Old(b)' = Old(b) /\ (Running' <=> Running) /\ data'[b] = data[b] /\ head' = head
        /\ kafka' = kafka
    BY DEF deleteOldComplete, Old, Running
  <1>2. KnownOK(b)' /\ WalOK(b)'
    BY <1>1 DEF TypeOK, BlockOK, KnownOK, Known, WalOK, BuildOK, deleteOldComplete,
                shouldDelete, Running
  <1>3. CopyOK(b)'
    BY <1>1 DEF TypeOK, BlockOK, CopyOK, Objects, deleteOldComplete, shouldDelete, Running
  <1>4. DeadOK(b)' /\ ExpiredOK(b)'
    BY <1>1 DEF TypeOK, BlockOK, DeadOK, ExpiredOK, Disposable, CopyOK, deleteOldComplete,
                shouldDelete, Running
  <1>5. ReclaimOK(b)'
    BY <1>1 DEF TypeOK, BlockOK, ReclaimOK, BuildOK, ExpiredOK, Disposable, CopyOK,
                deleteOldComplete, shouldDelete, Running
  <1>6. BuildOK(b)'
    BY <1>1 DEF TypeOK, BlockOK, BuildOK, DeadOK, WalOK, Disposable, deleteOldComplete,
                shouldDelete, Running
  <1>7. OnDiskOK(b)'
    BY <1>1 DEF TypeOK, BlockOK, OnDiskOK, BuildOK, WalOK, ExpiredOK, CopyOK, Disposable,
                deleteOldComplete, shouldDelete, Running
  <1>8. ServedOK(b)'
    BY <1>1 DEF TypeOK, BlockOK, ServedOK, deleteOldComplete, shouldDelete, Running
  <1> QED BY <1>2, <1>3, <1>4, <1>5, <1>6, <1>7, <1>8 DEF BlockOK

\* The quarantine reclaims one directory.
LEMMA ReclaimStep == ASSUME TypeOK, TypeOK', NEW e \in reclaim, Reclaim(e),
                            NEW c \in Blocks, BlockOK(c)
                     PROVE  BlockOK(c)'
  <1>1. /\ e[1] \in {"wal", "complete"} /\ e[2] \in Blocks /\ e = <<e[1], e[2]>>
    BY DEF TypeOK
  <1>2. Old(c)' = Old(c) /\ (Running' <=> Running) /\ data'[c] = data[c] /\ head' = head
        /\ kafka' = kafka
    BY DEF Reclaim, Old, Running
  <1>3. CASE e[2] # c
    <2>1. Same(c)
      BY <1>1, <1>2, <1>3
      DEF TypeOK, Same, Reclaim
    <2> QED BY <2>1, SameOK
  <1>4. CASE e = <<"wal", c>>
    <2>1. /\ walDir'[c] = "none" /\ blkDir' = blkDir /\ flushed' = flushed
          /\ \A d \in {"wal", "complete"} : <<d, c>> \in reclaim' <=>
                                                  d = "complete" /\ <<d, c>> \in reclaim
          /\ c \notin wal /\ (blkDir[c] = "live" \/ Disposable(c))
      BY <1>1, <1>4 DEF TypeOK, Reclaim, BlockOK, ReclaimOK
    <2>2. Disposable(c)' <=> Disposable(c)
      BY <1>2 DEF Disposable, Reclaim
    <2> QED
      BY <1>2, <2>1, <2>2
      DEF BlockOK, KnownOK, Known, WalOK, CopyOK, DeadOK, ExpiredOK, ReclaimOK, BuildOK, OnDiskOK,
          ServedOK, Reclaim
  <1>5. CASE e = <<"complete", c>>
    <2>1. /\ blkDir'[c] = "none" /\ walDir' = walDir /\ flushed' = flushed \ {c}
          /\ \A d \in {"wal", "complete"} : <<d, c>> \in reclaim' <=>
                                                  d = "wal" /\ <<d, c>> \in reclaim
          /\ Disposable(c)
      BY <1>1, <1>5 DEF TypeOK, Reclaim, BlockOK, ReclaimOK
    <2>2. Disposable(c)' <=> Disposable(c)
      BY <1>2 DEF Disposable, Reclaim
    <2> QED
      BY <1>2, <2>1, <2>2
      DEF BlockOK, KnownOK, Known, WalOK, CopyOK, DeadOK, ExpiredOK, ReclaimOK, BuildOK, OnDiskOK,
          ServedOK, Reclaim
  <1> QED BY <1>1, <1>3, <1>4, <1>5

\* The head block takes a trace: a new one takes an ID nobody knows.
LEMMA writeHeadBlockStep == ASSUME TypeOK, TypeOK', NEW r \in iter.recs, writeHeadBlock(r),
                                   NEW c \in Blocks, BlockOK(c)
                            PROVE  BlockOK(c)'
  <1>1. UNCHANGED <<logVars, phase, diskVars, snapVars, buildVars, flushVars, cleanVars>>
    BY DEF writeHeadBlock
  <1>2. CASE c = head'.id <=> c = head.id
    <2>1. Same(c)
      BY <1>1, <1>2 DEF TypeOK, Same, Running
    <2> QED BY <2>1, SameOK
  <1>3. CASE ~(c = head'.id <=> c = head.id)
    <2>1. head.id = NoID /\ head'.id = NewID
      BY <1>3 DEF writeHeadBlock
    <2>2. \E b \in Blocks : data[b] = {}
      BY <2>1 DEF writeHeadBlock
    <2>3. NewID \in Blocks /\ data[NewID] = {}
      BY <2>2 DEF NewID
    <2>4. NoID \notin Blocks
      BY LiveStoreAssumption DEF NoID
    <2>5. data[c] = {}
      BY <1>3, <2>1, <2>3, <2>4
    <2>6. ~Known(c)'
      BY <1>1, <2>5 DEF BlockOK, KnownOK, Known
    <2>7. CopyOK(c)'
      BY <1>1 DEF BlockOK, CopyOK
    <2>8. data'[c] = {}
      BY <1>1, <2>5 DEF diskVars
    <2> QED
      BY <2>6, <2>7, <2>8
      DEF BlockOK, Known, KnownOK, WalOK, DeadOK, ExpiredOK, ReclaimOK, BuildOK, OnDiskOK,
          ServedOK
  <1> QED BY <1>2, <1>3

\* The head block gets a page, and perhaps becomes a WAL block.
FlushedHead(b) == /\ data'[b] # {} /\ walDir'[b] = "live"
                  /\ UNCHANGED <<blkDir, complete, building, flushVars, cleanVars>>
                  /\ \/ UNCHANGED <<wal, ops>> /\ b = head'.id
                     \/ b \in wal' /\ b # head'.id
                  /\ UNCHANGED flushed

LEMMA FlushedHeadOK == ASSUME TypeOK, NEW b \in Blocks, BlockOK(b), b = head.id, FlushedHead(b)
                       PROVE  BlockOK(b)'
  <1>1. ~Known(b)
    BY DEF BlockOK, KnownOK
  <1>2. KnownOK(b)' /\ WalOK(b)' /\ DeadOK(b)' /\ ExpiredOK(b)' /\ BuildOK(b)'
    BY <1>1 DEF Known, KnownOK, WalOK, DeadOK, ExpiredOK, BuildOK, FlushedHead
  <1>3. ReclaimOK(b)' /\ OnDiskOK(b)' /\ ServedOK(b)'
    BY <1>1 DEF Known, ReclaimOK, OnDiskOK, ServedOK, FlushedHead
  <1>4. CopyOK(b)'
    BY DEF BlockOK, CopyOK, FlushedHead
  <1> QED BY <1>2, <1>3, <1>4 DEF BlockOK

LEMMA drainedStep == ASSUME TypeOK, TypeOK', HeadOK, drained, NEW c \in Blocks, BlockOK(c)
    PROVE  BlockOK(c)'
  <1>1. NoID \notin Blocks
    BY LiveStoreAssumption DEF NoID
  <1>2. Running' => Running
    BY DEF drained, FlushHead, Running
  <1>3. CASE cutter.wrote /\ head.buf # {} /\ c = head.id
    <2>1. FlushedHead(c)
      BY <1>3 DEF TypeOK, FlushedHead, drained, FlushHead
    <2> QED BY <1>3, <2>1, FlushedHeadOK
  <1>4. CASE ~(cutter.wrote /\ head.buf # {} /\ c = head.id)
    <2>0. head'.id = head.id
      BY DEF TypeOK, drained
    <2>1. Same(c)
      BY <1>2, <1>4, <2>0 DEF TypeOK, HeadOK, Same, drained, FlushHead
    <2> QED BY <2>1, SameOK
  <1> QED BY <1>3, <1>4

LEMMA cutBlocksStep == ASSUME TypeOK, TypeOK', HeadOK, cutBlocks, NEW c \in Blocks, BlockOK(c)
    PROVE  BlockOK(c)'
  <1>1. NoID \notin Blocks
    BY LiveStoreAssumption DEF NoID
  <1>2. Running' => Running
    BY DEF cutBlocks, FlushHead, NoHead, NextRound, PassEnds, Running
  <1>3. CASE c = head.id
    <2>1. FlushedHead(c)
      BY <1>1, <1>3 DEF TypeOK, HeadOK, FlushedHead, cutBlocks, FlushHead, NoHead
    <2> QED BY <1>3, <2>1, FlushedHeadOK
  <1>4. CASE c # head.id
    <2>1. Same(c)
      BY <1>1, <1>2, <1>4 DEF TypeOK, Same, cutBlocks, FlushHead, NoHead
    <2> QED BY <2>1, SameOK
  <1> QED BY <1>3, <1>4

LEMMA cutBlocksUnqueuedStep ==
    ASSUME TypeOK, TypeOK', HeadOK, cutBlocksUnqueued, NEW c \in Blocks, BlockOK(c)
    PROVE  BlockOK(c)'
  <1>1. NoID \notin Blocks
    BY LiveStoreAssumption DEF NoID
  <1>2. Running' => Running
    BY DEF cutBlocksUnqueued, FlushHead, NoHead, PassEnds, Running
  <1>3. CASE c = head.id
    <2>1. FlushedHead(c)
      BY <1>1, <1>3 DEF TypeOK, HeadOK, FlushedHead, cutBlocksUnqueued, FlushHead, NoHead
    <2> QED BY <1>3, <2>1, FlushedHeadOK
  <1>4. CASE c # head.id
    <2>1. Same(c)
      BY <1>1, <1>2, <1>4 DEF TypeOK, Same, cutBlocksUnqueued, FlushHead, NoHead
    <2> QED BY <2>1, SameOK
  <1> QED BY <1>3, <1>4

\* The process ends: only the disk and the object store are left.
LEMMA MemoryGoneStep ==
    ASSUME TypeOK, TypeOK', MemoryGone,
           UNCHANGED <<logVars, diskVars, backend, expired>>, NEW c \in Blocks, BlockOK(c)
    PROVE  BlockOK(c)'
  <1>1. /\ Old(c)' = Old(c) /\ ~Running' /\ data'[c] = data[c] /\ kafka' = kafka /\ c # head'.id
        /\ blkDir'[c] = blkDir[c] /\ walDir'[c] = walDir[c] /\ backend'[c] = backend[c]
        /\ flushed' = flushed /\ expired' = expired
    BY LiveStoreAssumption DEF MemoryGone, Old, Running, NoHead, NoID
  <1>2. /\ wal' = {} /\ complete'[c] = "none" /\ ops' = {} /\ building'[c] = "no"
        /\ copied' = {} /\ marked' = {} /\ reclaim' = {}
    BY DEF MemoryGone, Nowhere, NotBuilding
  <1>3. Disposable(c)' <=> Disposable(c)
    BY <1>1 DEF Disposable
  <1> QED
    BY <1>1, <1>2, <1>3
    DEF BlockOK, KnownOK, Known, WalOK, CopyOK, DeadOK, ExpiredOK, ReclaimOK, BuildOK, OnDiskOK,
        ServedOK

\* The disk is replayed.
LEMMA StartStep == ASSUME TypeOK, TypeOK', DownOK, Start, NEW c \in Blocks, BlockOK(c)
                   PROVE  BlockOK(c)'
  <1> DEFINE onWal == c \in WalOnDisk
             onBlk == c \in CompleteOnDisk
             oldWal == onWal /\ Old(c)
             oldBlk == onBlk /\ Old(c) /\ (kafka \/ c \in flushed)
  <1>1. /\ Old(c)' = Old(c) /\ data'[c] = data[c] /\ kafka' = kafka
        /\ backend'[c] = backend[c] /\ building'[c] = "no" /\ copied' = {}
        /\ c # head'.id
    BY LiveStoreAssumption
    DEF Start, DownOK, NotBuilding, NoHead, NoID, Old
  <1>2. /\ onWal <=> walDir[c] = "live" /\ data[c] # {}
        /\ onBlk <=> blkDir[c] = "live"
    BY DEF WalOnDisk, CompleteOnDisk
  <1>3. /\ walDir'[c] = IF oldWal THEN "dead" ELSE IF onWal THEN "live" ELSE "none"
        /\ blkDir'[c] = IF oldBlk THEN "dead" ELSE IF onBlk THEN "live" ELSE "none"
        /\ complete'[c] = IF onBlk /\ ~oldBlk THEN "reloaded" ELSE "none"
    BY DEF Start
  <1>4. /\ c \in flushed' <=> c \in flushed /\ onBlk
        /\ c \in wal' <=> onWal /\ ~oldWal
        /\ c \in ops' <=> onWal
        /\ c \in expired' <=> c \in expired \/ oldWal
    BY DEF Start
  <1>5. \A o \in Objects : <<c, o>> \in marked' => c \in flushed
    BY DEF Start
  <1>6. /\ <<"wal", c>> \in reclaim' <=> oldWal
        /\ <<"complete", c>> \in reclaim' <=> oldBlk
    BY DEF Start
  <1> HIDE DEF onWal, onBlk, oldWal, oldBlk
  <1>7. /\ oldWal <=> onWal /\ Old(c)
        /\ oldBlk <=> onBlk /\ Old(c) /\ (kafka \/ c \in flushed)
    BY DEF oldWal, oldBlk
  <1>8. /\ Disposable(c) => Disposable(c)'
        /\ oldWal => Disposable(c)'
        /\ oldBlk => Disposable(c)'
    BY <1>1, <1>4, <1>7 DEF Disposable, BlockOK, CopyOK
  <1>9. KnownOK(c)' /\ WalOK(c)'
    BY <1>1, <1>2, <1>3, <1>4, <1>6, <1>7 DEF BlockOK, KnownOK, Known, WalOK
  <1>10. CopyOK(c)'
    BY <1>1, <1>4, <1>5 DEF BlockOK, CopyOK
  <1>11. DeadOK(c)' /\ ExpiredOK(c)' /\ ReclaimOK(c)' /\ BuildOK(c)'
    BY <1>1, <1>3, <1>4, <1>6, <1>7, <1>8
    DEF BlockOK, DeadOK, ExpiredOK, ReclaimOK, BuildOK
  <1>12. OnDiskOK(c)'
    BY <1>1, <1>2, <1>3, <1>8 DEF BlockOK, OnDiskOK
  <1>13. ServedOK(c)'
    BY <1>1, <1>2, <1>3, <1>4, <1>7 DEF BlockOK, OnDiskOK, Disposable, ServedOK
  <1> QED BY <1>9, <1>10, <1>11, <1>12, <1>13 DEF BlockOK

-----------------------------------------------------------------------------
(* The steps that touch no block, and the head block in no step. *)

LEMMA ProduceFrame == ASSUME TypeOK, HeadOK, DownOK, Produce
    PROVE  HeadOK' /\ DownOK' /\ \A c \in Blocks : Same(c)
  <1>1. HeadOK' /\ DownOK'
    BY DEF TypeOK, HeadOK, DownOK, Produce, Running, NoCut
  <1>2. \A c \in Blocks : Same(c)
    BY DEF TypeOK, Same, Running, Produce
  <1> QED BY <1>1, <1>2

LEMMA PushBytesFrame == ASSUME TypeOK, HeadOK, DownOK, PushBytes
    PROVE  HeadOK' /\ DownOK' /\ \A c \in Blocks : Same(c)
  <1>1. HeadOK' /\ DownOK'
    BY DEF TypeOK, HeadOK, DownOK, PushBytes, Running, NoCut
  <1>2. \A c \in Blocks : Same(c)
    BY DEF TypeOK, Same, Running, PushBytes
  <1> QED BY <1>1, <1>2

LEMMA AgeFrame == ASSUME TypeOK, HeadOK, DownOK, Age
    PROVE  HeadOK' /\ DownOK' /\ \A c \in Blocks : Same(c)
  <1>1. HeadOK' /\ DownOK'
    BY DEF TypeOK, HeadOK, DownOK, Age, Running, NoCut
  <1>2. \A c \in Blocks : Same(c)
    BY DEF TypeOK, Same, Running, Age
  <1> QED BY <1>1, <1>2

LEMMA PollFetchesFrame == ASSUME TypeOK, HeadOK, DownOK, NEW n \in Records, PollFetches(n)
    PROVE  HeadOK' /\ DownOK' /\ \A c \in Blocks : Same(c)
  <1>1. HeadOK' /\ DownOK'
    BY DEF TypeOK, HeadOK, DownOK, PollFetches, Running, NoCut
  <1>2. \A c \in Blocks : Same(c)
    BY DEF TypeOK, Same, Running, PollFetches
  <1> QED BY <1>1, <1>2

LEMMA consumeFrame == ASSUME TypeOK, HeadOK, DownOK, consume
    PROVE  HeadOK' /\ DownOK' /\ \A c \in Blocks : Same(c)
  <1>1. HeadOK' /\ DownOK'
    BY DEF TypeOK, HeadOK, DownOK, consume, Running, NoCut
  <1>2. \A c \in Blocks : Same(c)
    BY DEF TypeOK, Same, Running, consume
  <1> QED BY <1>1, <1>2

LEMMA storeOffsetForCommitFrame == ASSUME TypeOK, HeadOK, DownOK, storeOffsetForCommit
    PROVE  HeadOK' /\ DownOK' /\ \A c \in Blocks : Same(c)
  <1>1. HeadOK' /\ DownOK'
    BY DEF TypeOK, HeadOK, DownOK, storeOffsetForCommit, Running, NoCut
  <1>2. \A c \in Blocks : Same(c)
    BY DEF TypeOK, Same, Running, storeOffsetForCommit
  <1> QED BY <1>1, <1>2

LEMMA commitHighWatermarkFrame == ASSUME TypeOK, HeadOK, DownOK, commitHighWatermark
    PROVE  HeadOK' /\ DownOK' /\ \A c \in Blocks : Same(c)
  <1>1. HeadOK' /\ DownOK'
    BY DEF TypeOK, HeadOK, DownOK, commitHighWatermark, Running, NoCut
  <1>2. \A c \in Blocks : Same(c)
    BY DEF TypeOK, Same, Running, commitHighWatermark
  <1> QED BY <1>1, <1>2

LEMMA commitLoopEndsFrame == ASSUME TypeOK, HeadOK, DownOK, commitLoopEnds
    PROVE  HeadOK' /\ DownOK' /\ \A c \in Blocks : Same(c)
  <1>1. HeadOK' /\ DownOK'
    BY DEF TypeOK, HeadOK, DownOK, commitLoopEnds, Running, NoCut
  <1>2. \A c \in Blocks : Same(c)
    BY DEF TypeOK, Same, Running, commitLoopEnds
  <1> QED BY <1>1, <1>2

LEMMA cutIdleTracesFrame == ASSUME TypeOK, HeadOK, DownOK, NEW S \in SUBSET live, cutIdleTraces(S)
    PROVE  HeadOK' /\ DownOK' /\ \A c \in Blocks : Same(c)
  <1>1. HeadOK' /\ DownOK'
    BY DEF TypeOK, HeadOK, DownOK, cutIdleTraces, Running, NoCut
  <1>2. \A c \in Blocks : Same(c)
    BY DEF TypeOK, Same, Running, cutIdleTraces
  <1> QED BY <1>1, <1>2

LEMMA writeFailsFrame == ASSUME TypeOK, HeadOK, DownOK, writeFails
    PROVE  HeadOK' /\ DownOK' /\ \A c \in Blocks : Same(c)
  <1>1. HeadOK' /\ DownOK'
    BY DEF TypeOK, HeadOK, DownOK, writeFails, PassEnds, Running, NoCut
  <1>2. \A c \in Blocks : Same(c)
    BY DEF TypeOK, Same, Running, writeFails, PassEnds
  <1> QED BY <1>1, <1>2

LEMMA flushFailsFrame == ASSUME TypeOK, HeadOK, DownOK, flushFails
    PROVE  HeadOK' /\ DownOK' /\ \A c \in Blocks : Same(c)
  <1>1. HeadOK' /\ DownOK'
    BY DEF TypeOK, HeadOK, DownOK, flushFails, PassEnds, Running, NoCut
  <1>2. \A c \in Blocks : Same(c)
    BY DEF TypeOK, Same, Running, flushFails, PassEnds
  <1> QED BY <1>1, <1>2

LEMMA keepHeadFrame == ASSUME TypeOK, HeadOK, DownOK, keepHead
    PROVE  HeadOK' /\ DownOK' /\ \A c \in Blocks : Same(c)
  <1>1. HeadOK' /\ DownOK'
    BY DEF TypeOK, HeadOK, DownOK, keepHead, PassEnds, Running, NoCut
  <1>2. \A c \in Blocks : Same(c)
    BY DEF TypeOK, Same, Running, keepHead, PassEnds
  <1> QED BY <1>1, <1>2

LEMMA StopFrame == ASSUME TypeOK, HeadOK, DownOK, Stop
    PROVE  HeadOK' /\ DownOK' /\ \A c \in Blocks : Same(c)
  <1>1. HeadOK' /\ DownOK'
    BY DEF TypeOK, HeadOK, DownOK, Stop, Running, NoCut
  <1>2. \A c \in Blocks : Same(c)
    BY DEF TypeOK, Same, Running, Stop
  <1> QED BY <1>1, <1>2

LEMMA FinalCutFrame == ASSUME TypeOK, HeadOK, DownOK, FinalCut
    PROVE  HeadOK' /\ DownOK' /\ \A c \in Blocks : Same(c)
  <1>1. HeadOK' /\ DownOK'
    BY DEF TypeOK, HeadOK, DownOK, FinalCut, Running, NoCut
  <1>2. \A c \in Blocks : Same(c)
    BY DEF TypeOK, Same, Running, FinalCut
  <1> QED BY <1>1, <1>2

LEMMA CreateBlockHead == ASSUME TypeOK, HeadOK, DownOK, NEW b \in Blocks, CreateBlock(b)
    PROVE  HeadOK' /\ DownOK'
  BY DEF TypeOK, HeadOK, DownOK, NotBuilding, CreateBlock, Running

LEMMA BlockCreatedHead == ASSUME TypeOK, HeadOK, DownOK, NEW b \in Blocks, BlockCreated(b)
    PROVE  HeadOK' /\ DownOK'
  BY DEF TypeOK, HeadOK, DownOK, NotBuilding, BlockCreated, Running

LEMMA CreateFailsHead == ASSUME TypeOK, HeadOK, DownOK, NEW b \in Blocks, CreateFails(b)
    PROVE  HeadOK' /\ DownOK'
  BY DEF TypeOK, HeadOK, DownOK, NotBuilding, CreateFails, Running

LEMMA SwapHead == ASSUME TypeOK, HeadOK, DownOK, NEW b \in Blocks, Swap(b)
    PROVE  HeadOK' /\ DownOK'
  BY DEF TypeOK, HeadOK, DownOK, NotBuilding, Swap, Enqueue, Running

LEMMA DisappearedHead == ASSUME TypeOK, HeadOK, DownOK, NEW b \in Blocks, Disappeared(b)
    PROVE  HeadOK' /\ DownOK'
  BY DEF TypeOK, HeadOK, DownOK, NotBuilding, Disappeared, Enqueue, Running

LEMMA NothingToCompleteHead ==
    ASSUME TypeOK, HeadOK, DownOK, NEW b \in Blocks, NothingToComplete(b)
    PROVE  HeadOK' /\ DownOK'
  BY DEF TypeOK, HeadOK, DownOK, NotBuilding, NothingToComplete, Enqueue, Running

LEMMA CopyBlockHead == ASSUME TypeOK, HeadOK, DownOK, NEW b \in Blocks, CopyBlock(b)
    PROVE  HeadOK' /\ DownOK'
  BY DEF TypeOK, HeadOK, DownOK, NotBuilding, CopyBlock, Running

LEMMA SetFlushedHead == ASSUME TypeOK, HeadOK, DownOK, NEW b \in Blocks, SetFlushed(b)
    PROVE  HeadOK' /\ DownOK'
  BY DEF TypeOK, HeadOK, DownOK, NotBuilding, SetFlushed, Running

LEMMA FlushFailsHead == ASSUME TypeOK, HeadOK, DownOK, NEW b \in Blocks, FlushFails(b)
    PROVE  HeadOK' /\ DownOK'
  BY DEF TypeOK, HeadOK, DownOK, NotBuilding, FlushFails, Running

LEMMA deleteOldWALHead == ASSUME TypeOK, HeadOK, DownOK, NEW b \in Blocks, deleteOldWAL(b)
    PROVE  HeadOK' /\ DownOK'
  BY DEF TypeOK, HeadOK, DownOK, NotBuilding, deleteOldWAL, Running

LEMMA deleteOldCompleteHead ==
    ASSUME TypeOK, HeadOK, DownOK, NEW b \in Blocks, deleteOldComplete(b)
    PROVE  HeadOK' /\ DownOK'
  BY DEF TypeOK, HeadOK, DownOK, NotBuilding, deleteOldComplete, shouldDelete, Running

LEMMA ReclaimHead == ASSUME TypeOK, HeadOK, DownOK, NEW e \in reclaim, Reclaim(e)
    PROVE  HeadOK' /\ DownOK'
  BY DEF TypeOK, HeadOK, DownOK, Reclaim, Running

LEMMA writeHeadBlockHead == ASSUME TypeOK, HeadOK, DownOK, NEW r \in iter.recs, writeHeadBlock(r)
    PROVE  HeadOK' /\ DownOK'
  <1>1. head'.buf # {}
    BY DEF writeHeadBlock
  <1>2. phase # "down" /\ phase' = phase
    BY DEF DownOK, NoCut, writeHeadBlock
  <1>3. head'.id # NoID
    <2>1. head.id = NoID => NewID \in Blocks
      BY DEF writeHeadBlock, NewID
    <2> QED BY <2>1, LiveStoreAssumption DEF writeHeadBlock, NoID
  <1> QED BY <1>1, <1>2, <1>3 DEF HeadOK, DownOK

LEMMA drainedHead == ASSUME TypeOK, HeadOK, DownOK, drained PROVE HeadOK' /\ DownOK'
  <1>1. phase # "down" /\ phase' = phase
    BY DEF DownOK, NoCut, drained
  <1>2. CASE cutter.wrote /\ head.buf # {}
    <2>1. head.id \in Blocks /\ head'.id = head.id /\ head'.buf = {} /\ data'[head.id] # {}
      BY <1>2 DEF TypeOK, HeadOK, drained, FlushHead
    <2> QED BY <1>1, <2>1, LiveStoreAssumption DEF HeadOK, DownOK, NoID
  <1>3. CASE ~(cutter.wrote /\ head.buf # {})
    BY <1>1, <1>3 DEF HeadOK, DownOK, drained
  <1> QED BY <1>2, <1>3

LEMMA cutBlocksHead == ASSUME TypeOK, DownOK, cutBlocks \/ cutBlocksUnqueued
    PROVE HeadOK' /\ DownOK'
  <1>1. phase # "down" /\ phase' # "down"
    BY DEF DownOK, NoCut, cutBlocks, cutBlocksUnqueued, NextRound, PassEnds
  <1>2. head' = NoHead
    BY DEF cutBlocks, cutBlocksUnqueued
  <1> QED BY <1>1, <1>2 DEF HeadOK, DownOK, NoHead

LEMMA MemoryGoneHead == ASSUME MemoryGone PROVE HeadOK' /\ DownOK'
  BY DEF MemoryGone, HeadOK, DownOK, NoHead

LEMMA StartHead == ASSUME DownOK, Start PROVE HeadOK' /\ DownOK'
  BY DEF Start, HeadOK, DownOK, NoHead

-----------------------------------------------------------------------------
(* The invariant. *)

LEMMA InitInv == Init => BlockInv
  <1> SUFFICES ASSUME Init PROVE BlockInv
    OBVIOUS
  <1>1. TypeOK
    <2>1. reader \in [pos : 0 .. MaxRecords, last : 0 .. MaxRecords, busy : BOOLEAN,
                      wm : 0 .. MaxRecords, loop : BOOLEAN]
      BY LiveStoreAssumption DEF Init, NoReader
    <2>2. /\ iter \in [open : BOOLEAN, recs : SUBSET Records]
          /\ head \in [id : Blocks \cup {NoID}, buf : SUBSET Records]
      BY DEF Init, NoIter, NoHead
    <2>3. cutter \in [pc : {"idle", "cut", "seal"}, drained : BOOLEAN, wrote : BOOLEAN,
                      idle : BOOLEAN]
      BY DEF Init, NoCut
    <2> QED
      BY <2>1, <2>2, <2>3, LiveStoreAssumption
      DEF Init, TypeOK, Nowhere, NotBuilding, Objects
  <1>2. HeadOK /\ DownOK
    BY DEF Init, HeadOK, DownOK, NoHead
  <1>3. ASSUME NEW b \in Blocks PROVE BlockOK(b)
    BY DEF Init, BlockOK, KnownOK, Known, WalOK, CopyOK, DeadOK, ExpiredOK, ReclaimOK, BuildOK,
           OnDiskOK, ServedOK, Running, Nowhere, NotBuilding
  <1> QED BY <1>1, <1>2, <1>3 DEF BlockInv

LEMMA StutterInv == ASSUME BlockInv, UNCHANGED vars PROVE BlockInv'
  <1>1. TypeOK' /\ HeadOK' /\ DownOK'
    BY DEF BlockInv, TypeOK, HeadOK, DownOK, vars
  <1>2. ASSUME NEW b \in Blocks PROVE Same(b)
    BY DEF BlockInv, TypeOK, Same, Running, vars
  <1> QED BY <1>1, <1>2, SameOK DEF BlockInv

LEMMA BlockStep == BlockInv /\ [Next]_vars => BlockInv'
  <1> SUFFICES ASSUME BlockInv, [Next]_vars PROVE BlockInv'
    OBVIOUS
  <1>0. TypeOK /\ HeadOK /\ DownOK /\ \A b \in Blocks : BlockOK(b)
    BY DEF BlockInv
  <1>1. CASE Produce
    BY <1>0, <1>1, ProduceType, ProduceFrame, SameOK DEF BlockInv
  <1>2. CASE PushBytes
    BY <1>0, <1>2, PushBytesType, PushBytesFrame, SameOK DEF BlockInv
  <1>3. CASE Age
    BY <1>0, <1>3, AgeType, AgeFrame, SameOK DEF BlockInv
  <1>4. ASSUME NEW n \in Records, PollFetches(n) PROVE BlockInv'
    BY <1>0, <1>4, PollFetchesType, PollFetchesFrame, SameOK DEF BlockInv
  <1>5. CASE consume
    BY <1>0, <1>5, consumeType, consumeFrame, SameOK DEF BlockInv
  <1>6. CASE storeOffsetForCommit
    BY <1>0, <1>6, storeOffsetForCommitType, storeOffsetForCommitFrame, SameOK DEF BlockInv
  <1>7. CASE commitHighWatermark
    BY <1>0, <1>7, commitHighWatermarkType, commitHighWatermarkFrame, SameOK DEF BlockInv
  <1>8. CASE commitLoopEnds
    BY <1>0, <1>8, commitLoopEndsType, commitLoopEndsFrame, SameOK DEF BlockInv
  <1>9. ASSUME NEW S \in SUBSET live, cutIdleTraces(S) PROVE BlockInv'
    BY <1>0, <1>9, cutIdleTracesType, cutIdleTracesFrame, SameOK DEF BlockInv
  <1>10. CASE writeFails
    BY <1>0, <1>10, writeFailsType, writeFailsFrame, SameOK DEF BlockInv
  <1>11. CASE flushFails
    BY <1>0, <1>11, flushFailsType, flushFailsFrame, SameOK DEF BlockInv
  <1>12. CASE keepHead
    BY <1>0, <1>12, keepHeadType, keepHeadFrame, SameOK DEF BlockInv
  <1>13. CASE Stop
    BY <1>0, <1>13, StopType, StopFrame, SameOK DEF BlockInv
  <1>14. CASE FinalCut
    BY <1>0, <1>14, FinalCutType, FinalCutFrame, SameOK DEF BlockInv
  <1>15. ASSUME NEW b \in Blocks, CreateBlock(b) PROVE BlockInv'
    <2>1. TypeOK' /\ HeadOK' /\ DownOK'
      BY <1>0, <1>15, CreateBlockType, CreateBlockHead
    <2>2. ASSUME NEW c \in Blocks PROVE BlockOK(c)'
      BY <1>0, <1>15, <2>1, CreateBlockRest, CreateBlockBlock, SameOK
    <2> QED BY <2>1, <2>2 DEF BlockInv
  <1>16. ASSUME NEW b \in Blocks, BlockCreated(b) PROVE BlockInv'
    <2>1. TypeOK' /\ HeadOK' /\ DownOK'
      BY <1>0, <1>16, BlockCreatedType, BlockCreatedHead
    <2>2. ASSUME NEW c \in Blocks PROVE BlockOK(c)'
      BY <1>0, <1>16, <2>1, BlockCreatedRest, BlockCreatedBlock, SameOK
    <2> QED BY <2>1, <2>2 DEF BlockInv
  <1>17. ASSUME NEW b \in Blocks, CreateFails(b) PROVE BlockInv'
    <2>1. TypeOK' /\ HeadOK' /\ DownOK'
      BY <1>0, <1>17, CreateFailsType, CreateFailsHead
    <2>2. ASSUME NEW c \in Blocks PROVE BlockOK(c)'
      BY <1>0, <1>17, <2>1, CreateFailsRest, CreateFailsBlock, SameOK
    <2> QED BY <2>1, <2>2 DEF BlockInv
  <1>18. ASSUME NEW b \in Blocks, Swap(b) PROVE BlockInv'
    <2>1. TypeOK' /\ HeadOK' /\ DownOK'
      BY <1>0, <1>18, SwapType, SwapHead
    <2>2. ASSUME NEW c \in Blocks PROVE BlockOK(c)'
      BY <1>0, <1>18, <2>1, SwapRest, SwapBlock, SameOK
    <2> QED BY <2>1, <2>2 DEF BlockInv
  <1>19. ASSUME NEW b \in Blocks, Disappeared(b) PROVE BlockInv'
    <2>1. TypeOK' /\ HeadOK' /\ DownOK'
      BY <1>0, <1>19, DisappearedType, DisappearedHead
    <2>2. ASSUME NEW c \in Blocks PROVE BlockOK(c)'
      BY <1>0, <1>19, <2>1, DisappearedRest, DisappearedBlock, SameOK
    <2> QED BY <2>1, <2>2 DEF BlockInv
  <1>20. ASSUME NEW b \in Blocks, NothingToComplete(b) PROVE BlockInv'
    <2>1. TypeOK' /\ HeadOK' /\ DownOK'
      BY <1>0, <1>20, NothingToCompleteType, NothingToCompleteHead
    <2>2. ASSUME NEW c \in Blocks PROVE BlockOK(c)'
      BY <1>0, <1>20, <2>1, NothingToCompleteRest, NothingToCompleteBlock, SameOK
    <2> QED BY <2>1, <2>2 DEF BlockInv
  <1>21. ASSUME NEW b \in Blocks, CopyBlock(b) PROVE BlockInv'
    <2>1. TypeOK' /\ HeadOK' /\ DownOK'
      BY <1>0, <1>21, CopyBlockType, CopyBlockHead
    <2>2. ASSUME NEW c \in Blocks PROVE BlockOK(c)'
      BY <1>0, <1>21, <2>1, CopyBlockRest, CopyBlockBlock, SameOK
    <2> QED BY <2>1, <2>2 DEF BlockInv
  <1>22. ASSUME NEW b \in Blocks, SetFlushed(b) PROVE BlockInv'
    <2>1. TypeOK' /\ HeadOK' /\ DownOK'
      BY <1>0, <1>22, SetFlushedType, SetFlushedHead DEF BlockOK
    <2>2. ASSUME NEW c \in Blocks PROVE BlockOK(c)'
      BY <1>0, <1>22, <2>1, SetFlushedRest, SetFlushedBlock, SameOK
    <2> QED BY <2>1, <2>2 DEF BlockInv
  <1>23. ASSUME NEW b \in Blocks, FlushFails(b) PROVE BlockInv'
    <2>1. TypeOK' /\ HeadOK' /\ DownOK'
      BY <1>0, <1>23, FlushFailsType, FlushFailsHead
    <2>2. ASSUME NEW c \in Blocks PROVE BlockOK(c)'
      BY <1>0, <1>23, <2>1, FlushFailsRest, FlushFailsBlock, SameOK
    <2> QED BY <2>1, <2>2 DEF BlockInv
  <1>24. ASSUME NEW b \in Blocks, deleteOldWAL(b) PROVE BlockInv'
    <2>1. TypeOK' /\ HeadOK' /\ DownOK'
      BY <1>0, <1>24, deleteOldWALType, deleteOldWALHead
    <2>2. ASSUME NEW c \in Blocks PROVE BlockOK(c)'
      BY <1>0, <1>24, <2>1, deleteOldWALRest, deleteOldWALBlock, SameOK
    <2> QED BY <2>1, <2>2 DEF BlockInv
  <1>25. ASSUME NEW b \in Blocks, deleteOldComplete(b) PROVE BlockInv'
    <2>1. TypeOK' /\ HeadOK' /\ DownOK'
      BY <1>0, <1>25, deleteOldCompleteType, deleteOldCompleteHead
    <2>2. ASSUME NEW c \in Blocks PROVE BlockOK(c)'
      BY <1>0, <1>25, <2>1, deleteOldCompleteRest, deleteOldCompleteBlock, SameOK
    <2> QED BY <2>1, <2>2 DEF BlockInv
  <1>26. ASSUME NEW e \in reclaim, Reclaim(e) PROVE BlockInv'
    BY <1>0, <1>26, ReclaimType, ReclaimHead, ReclaimStep DEF BlockInv
  <1>27. ASSUME NEW r \in iter.recs, writeHeadBlock(r) PROVE BlockInv'
    BY <1>0, <1>27, writeHeadBlockType, writeHeadBlockHead, writeHeadBlockStep DEF BlockInv
  <1>28. CASE drained
    BY <1>0, <1>28, drainedType, drainedHead, drainedStep DEF BlockInv
  <1>29. CASE cutBlocks
    BY <1>0, <1>29, cutBlocksType, cutBlocksHead, cutBlocksStep DEF BlockInv
  <1>30. CASE cutBlocksUnqueued
    BY <1>0, <1>30, cutBlocksUnqueuedType, cutBlocksHead, cutBlocksUnqueuedStep DEF BlockInv
  <1>31. CASE Terminated
    <2>1. TypeOK'
      BY <1>0, <1>31, TerminatedType
    <2>2. MemoryGone /\ UNCHANGED <<logVars, diskVars, backend, expired>>
      BY <1>31 DEF Terminated
    <2> QED BY <1>0, <2>1, <2>2, MemoryGoneHead, MemoryGoneStep DEF BlockInv
  <1>32. CASE Crash
    <2>1. TypeOK'
      BY <1>0, <1>32, CrashType
    <2>2. MemoryGone /\ UNCHANGED <<logVars, diskVars, backend, expired>>
      BY <1>32 DEF Crash
    <2> QED BY <1>0, <2>1, <2>2, MemoryGoneHead, MemoryGoneStep DEF BlockInv
  <1>33. CASE Start
    BY <1>0, <1>33, StartType, StartHead, StartStep DEF BlockInv
  <1>34. CASE ReaderStep
    BY <1>34, <1>4, <1>5, <1>6, <1>7, <1>8 DEF ReaderStep
  <1>35. CASE CutterStep
    BY <1>35, <1>9, <1>27, <1>28, <1>29, <1>12 DEF CutterStep
  <1>36. CASE CutterFault
    BY <1>36, <1>10, <1>11, <1>30 DEF CutterFault
  <1>37. CASE CleanupStep
    BY <1>37, <1>24, <1>25, <1>26 DEF CleanupStep
  <1>38. CASE ProcessStep
    BY <1>38, <1>14, <1>31, <1>33 DEF ProcessStep
  <1>39. CASE Environment
    BY <1>39, <1>1, <1>2, <1>3, <1>13, <1>32 DEF Environment
  <1>40. ASSUME NEW b \in Blocks, CompleteStep(b) PROVE BlockInv'
    BY <1>40, <1>15, <1>16, <1>17, <1>18, <1>19, <1>20 DEF CompleteStep
  <1>41. ASSUME NEW b \in Blocks, FlushStep(b) PROVE BlockInv'
    BY <1>41, <1>21, <1>22, <1>23 DEF FlushStep
  <1>42. CASE UNCHANGED vars
    BY <1>42, StutterInv
  <1> QED BY <1>34, <1>35, <1>36, <1>37, <1>38, <1>39, <1>40, <1>41, <1>42 DEF Next

LEMMA BlockInvariant == Spec => []BlockInv
  BY InitInv, BlockStep, PTL DEF Spec

\* Every variable of a live-store has its type.
THEOREM LiveStoreTypeOK == Spec => []TypeOK
  <1>1. BlockInv => TypeOK
    BY DEF BlockInv
  <1> QED BY <1>1, BlockInvariant, PTL

\* What has been written to a page of the WAL is on disk until it is old,
\* through completions, cleanups, crashes and replays.
THEOREM LiveStoreKept == Spec => []KeptUntilOld
  <1>1. BlockInv => KeptUntilOld
    BY DEF BlockInv, BlockOK, OnDiskOK, Disposable, KeptUntilOld
  <1> QED BY <1>1, BlockInvariant, PTL

\* A query finds every block that has pages and is not old.
THEOREM LiveStoreServed == Spec => []Served
  <1>1. BlockInv => Served
    BY DEF BlockInv, BlockOK, ServedOK, Served
  <1> QED BY <1>1, BlockInvariant, PTL

\* In the single binary nothing leaves the disk before the object store has it.
THEOREM LiveStoreFlushed == Spec => []FlushedBeforeGone
  <1>1. BlockInv => FlushedBeforeGone
    BY DEF BlockInv, BlockOK, OnDiskOK, Disposable, FlushedBeforeGone
  <1> QED BY <1>1, BlockInvariant, PTL

-----------------------------------------------------------------------------
(* The final cut. *)

\* A step of another loop.
CutSame == UNCHANGED <<cutVars, phase, data>> /\ faults' \in {faults, faults + 1}

LEMMA CutSameInv == ASSUME TypeOK, CutInv, CutSame PROVE CutInv'
  <1>1. faults' = 0 => faults = 0
    BY DEF TypeOK, CutSame
  <1> QED BY <1>1 DEF CutInv, CutSame, Full

\* The first fault ends what CutInv says.
LEMMA FaultInv == ASSUME TypeOK, Fault PROVE CutInv'
  <1>1. faults' # 0
    BY DEF TypeOK, Fault
  <1> QED BY <1>1 DEF CutInv

LEMMA CutStep == TypeOK /\ DownOK /\ CutInv /\ [Next]_vars => CutInv'
  <1> SUFFICES ASSUME TypeOK, DownOK, CutInv, [Next]_vars PROVE CutInv'
    OBVIOUS
  <1>1. ASSUME NEW S \in SUBSET live, cutIdleTraces(S) PROVE CutInv'
    <2>1. /\ cutter.pc = "idle" /\ phase' = phase /\ phase # "closing" /\ head' = head
          /\ faults' = faults /\ (phase = "cutting" => S = live)
          /\ cutter'.pc = "cut" /\ ~cutter'.drained
      BY <1>1 DEF cutIdleTraces, Running
    <2>2. iter' = (IF iter.open THEN iter ELSE [open |-> TRUE, recs |-> S])
          /\ live' = (IF iter.open THEN live ELSE live \ S)
      BY <1>1 DEF cutIdleTraces
    <2>3. faults = 0 => ~iter.open /\ head.buf = {}
      BY <2>1 DEF CutInv, NoIter
    <2> QED BY <2>1, <2>2, <2>3 DEF CutInv
  <1>2. ASSUME NEW r \in iter.recs, writeHeadBlock(r) PROVE CutInv'
    <2>1. /\ cutter.pc = "cut" /\ phase' = phase /\ faults' = faults /\ live' = live /\ data' = data
          /\ iter'.open = iter.open
      BY <1>2 DEF TypeOK, writeHeadBlock
    <2>2. cutter'.wrote = TRUE /\ cutter'.drained = cutter.drained /\ cutter'.pc \in {"cut", "seal"}
      BY <1>2 DEF TypeOK, writeHeadBlock
    <2>3. cutter'.pc = "seal" => Full'
      <3>1. head'.id # NoID
        <4>1. head.id = NoID => NewID \in Blocks
          BY <1>2 DEF writeHeadBlock, NewID
        <4> QED BY <1>2, <4>1, LiveStoreAssumption DEF writeHeadBlock, NoID
      <3>2. cutter'.pc = "seal" => Cardinality(data[head'.id] \cup head'.buf) >= MaxBlock
        BY <1>2 DEF TypeOK, writeHeadBlock
      <3> QED BY <2>1, <3>1, <3>2 DEF Full
    <2> QED BY <2>1, <2>2, <2>3 DEF CutInv
  <1>3. CASE drained
    <2>1. /\ cutter.pc = "cut" /\ phase' = phase /\ faults' = faults /\ live' = live
          /\ iter' = NoIter
          /\ cutter'.pc = "seal" /\ cutter'.drained
      BY <1>3 DEF TypeOK, drained
    <2>2. faults = 0 => head'.buf = {}
      BY <1>3, <2>1 DEF TypeOK, drained, CutInv
    <2> QED BY <2>1, <2>2 DEF CutInv
  <1>4. CASE cutBlocks
    <2>1. /\ cutter.pc = "seal" /\ faults' = faults /\ live' = live /\ iter' = iter
          /\ head'.buf = {}
      BY <1>4 DEF cutBlocks, NoHead
    <2>2. CASE cutter.drained
      <3>1. cutter'.pc = "idle" /\ phase' = IF phase = "cutting" THEN "closing" ELSE phase
        BY <1>4, <2>2 DEF cutBlocks, NextRound, PassEnds, NoCut
      <3> QED BY <2>1, <2>2, <3>1 DEF CutInv
    <2>3. CASE ~cutter.drained
      <3>1. /\ cutter' = [cutter EXCEPT !.pc = "cut", !.wrote = FALSE, !.idle = FALSE]
            /\ phase' = phase
        BY <1>4, <2>3 DEF cutBlocks, NextRound
      <3>2. cutter'.pc = "cut" /\ ~cutter'.drained
        BY <2>3, <3>1 DEF TypeOK
      <3> QED BY <2>1, <2>3, <3>1, <3>2 DEF CutInv
    <2> QED BY <2>2, <2>3
  <1>5. CASE keepHead
    <2>1. /\ cutter.pc = "seal" /\ faults' = faults /\ live' = live /\ iter' = iter /\ head' = head
          /\ cutter'.pc = "idle" /\ phase' = IF phase = "cutting" THEN "closing" ELSE phase
      BY <1>5 DEF keepHead, PassEnds, NoCut
    <2>2. ~Full \/ phase = "closing" \/ head.id = NoID
      BY <1>5 DEF keepHead
    <2>3. faults = 0 => cutter.drained
      BY <2>1, <2>2 DEF CutInv, Full
    <2> QED BY <2>1, <2>3 DEF CutInv
  <1>6. CASE PushBytes \/ consume
    <2>1. /\ UNCHANGED <<iter, head, cutter, phase, data, faults>>
          /\ phase # "up" => live' = live
      BY <1>6 DEF PushBytes, consume
    <2> QED BY <2>1 DEF CutInv, Full
  <1>7. CASE writeFails \/ flushFails \/ cutBlocksUnqueued \/ Crash
    BY <1>7, FaultInv DEF writeFails, flushFails, cutBlocksUnqueued, Crash
  <1>8. CASE Stop \/ FinalCut
    <2>1. UNCHANGED <<cutVars, data, faults>> /\ phase # "closing" /\ phase' # "closing"
      BY <1>8 DEF Stop, FinalCut
    <2>2. phase' = "cutting" => cutter.pc = "idle"
      BY <1>8 DEF Stop, FinalCut
    <2> QED BY <2>1, <2>2 DEF CutInv, Full
  <1>9. CASE Terminated \/ Start
    <2>1. iter' = NoIter /\ head' = NoHead /\ cutter' = NoCut /\ phase' \in {"down", "up"}
      BY <1>9 DEF Terminated, MemoryGone, Start, DownOK
    <2> QED BY <2>1 DEF CutInv, NoHead, NoCut
  <1>10. CASE Produce \/ Age \/ storeOffsetForCommit \/ commitHighWatermark \/ commitLoopEnds
    <2>1. CutSame
      BY <1>10
      DEF CutSame, Produce, Age, storeOffsetForCommit, commitHighWatermark, commitLoopEnds
    <2> QED BY <2>1, CutSameInv
  <1>11. ASSUME NEW n \in Records, PollFetches(n) PROVE CutInv'
    <2>1. CutSame
      BY <1>11 DEF CutSame, PollFetches
    <2> QED BY <2>1, CutSameInv
  <1>12. ASSUME NEW b \in Blocks, CompleteStep(b) \/ FlushStep(b) PROVE CutInv'
    <2>1. CASE CreateBlock(b) \/ BlockCreated(b) \/ CreateFails(b) \/ Swap(b)
      <3>1. CutSame
        BY <2>1 DEF CutSame, CreateBlock, BlockCreated, CreateFails, Swap, Fault
      <3> QED BY <3>1, CutSameInv
    <2>2. CASE Disappeared(b) \/ NothingToComplete(b) \/ FlushStep(b)
      <3>1. CutSame
        BY <2>2 DEF CutSame, Disappeared, NothingToComplete, FlushStep, CopyBlock, SetFlushed,
                    FlushFails, Fault
      <3> QED BY <3>1, CutSameInv
    <2> QED BY <1>12, <2>1, <2>2 DEF CompleteStep
  <1>13. CASE CleanupStep
    <2>1. CutSame
      BY <1>13 DEF CutSame, CleanupStep, deleteOldWAL, deleteOldComplete, Reclaim
    <2> QED BY <2>1, CutSameInv
  <1>14. CASE UNCHANGED vars
    <2>1. CutSame
      BY <1>14 DEF CutSame, vars
    <2> QED BY <2>1, CutSameInv
  <1>15. CASE ReaderStep \/ CutterStep \/ CutterFault \/ ProcessStep \/ Environment
    BY <1>1, <1>2, <1>3, <1>4, <1>5, <1>6, <1>7, <1>8, <1>9, <1>10, <1>11, <1>15
    DEF ReaderStep, CutterStep, CutterFault, ProcessStep, Environment
  <1> QED BY <1>12, <1>13, <1>14, <1>15 DEF Next

\* An orderly stop without I/O errors cuts every trace to the WAL, also the
\* ones a pass was working on when the stop began.
THEOREM LiveStoreDrained == Spec => []DrainedAtStop
  <1>1. Init => CutInv
    BY DEF Init, CutInv, NoHead, NoCut
  <1>2. BlockInv => TypeOK /\ DownOK
    BY DEF BlockInv
  <1>3. CutInv => DrainedAtStop
    BY DEF CutInv, DrainedAtStop, NoIter
  <1> QED BY <1>1, <1>2, <1>3, BlockInvariant, CutStep, PTL DEF Spec

=============================================================================
