---------------------------- MODULE BlockBuilder ----------------------------
(***************************************************************************)
(* The block-builder (modules/blockbuilder): it consumes sections of Kafka *)
(* partitions, writes one block per tenant and section to the object store *)
(* under a deterministic ID, commits the offset and only then lets the     *)
(* compactors have the blocks.  An error or a crash at any point makes it  *)
(* start over from the committed offset, and the section it cuts then need *)
(* not be the one it cut before.                                           *)
(*                                                                         *)
(* A record is its offset and the tenant that sent it; a record too large  *)
(* for the tenant's limit (fits = FALSE) is discarded by AppendTrace.  The *)
(* scratch directory, which consume clears first, holds nothing that is    *)
(* read again and is left out.                                             *)
(***************************************************************************)
EXTENDS Integers, Sequences, FiniteSets

CONSTANTS Tenants,        \* the tenants that send records
          Parts,          \* the partitions assigned to this block-builder
          MaxRecords,     \* bound: records of a partition
          MaxSeq,         \* bound: block IDs tried for a tenant and section
          MaxFaults       \* bound: crashes, errors and timeouts of a behaviour

ASSUME BoundsAssumption == /\ MaxRecords \in Nat
                           /\ MaxSeq \in Nat
                           /\ MaxFaults \in Nat
ASSUME PartsAssumption == Parts # {}

VARIABLES log,            \* per partition: its records, offset 0 first
          committed,      \* per partition: the consumer group's offset, -1 for none
          store,          \* the object store: what each block ID holds
          archived,       \* the records <<partition, offset>> that compaction has rewritten
          pc,             \* where the consume loop is
          ps,             \* partitionState per partition: [commit, first]
          cur,            \* the section: [part, start, next]
          flush,          \* per tenant: the progress of tenantStore.Flush
          faults          \* faults so far

kafkaVars == <<log, committed>>
storeVars == <<store, archived>>
builderVars == <<pc, ps, cur, flush>>
vars == <<log, committed, store, archived, pc, ps, cur, flush, faults>>

commitOffsetAtEnd == -1

Offsets == 0 .. MaxRecords - 1
Seqs == 1 .. MaxSeq
Records == [tenant : Tenants, fits : BOOLEAN]

\* NewDeterministicIDGenerator(tenant, partition, startOffset) and its n-th ID.
BlockIDs == [tenant : Tenants, part : Parts, start : Offsets, seq : Seqs]
BlockID(t, p, start, n) == [tenant |-> t, part |-> p, start |-> start, seq |-> n]

\* A block is absent, live (meta.json) or compacted (meta.compacted.json).
NoBlock == [st |-> "none", recs |-> {}, noCompact |-> FALSE]
BlockStates == [st : {"none", "live", "compacted"}, recs : SUBSET Offsets, noCompact : BOOLEAN]

\* A tenant's flush: absent, before determineBlockIDs, marking the blocks of
\* old, writing block seq, done, or released to compaction.
NoFlush == [st |-> "absent", seq |-> 0, old |-> {}]
StartFlush == [st |-> "start", seq |-> 0, old |-> {}]
FlushStates == [st : {"absent", "start", "mark", "done", "allowed"}, seq : 0 .. MaxSeq,
                old : SUBSET BlockIDs]

\* The locals of consume and of consumePartition before they have a value.
NoPartitions == [p \in Parts |-> [commit |-> commitOffsetAtEnd, first |-> FALSE]]
NoSection == [part |-> CHOOSE p \in Parts : TRUE, start |-> 0, next |-> 0]
NoFlushes == [t \in Tenants |-> NoFlush]

Init == /\ log = [p \in Parts |-> <<>>]
        /\ committed = [p \in Parts |-> commitOffsetAtEnd]
        /\ store = [b \in BlockIDs |-> NoBlock]
        /\ archived = {}
        /\ pc = "idle"
        /\ ps = NoPartitions
        /\ cur = NoSection
        /\ flush = NoFlushes
        /\ faults = 0

Live(b) == store[b].st = "live"
Compactable(b) == Live(b) /\ ~store[b].noCompact

-----------------------------------------------------------------------------
(* The consume cycle.                                                      *)

\* Variant: an empty partition's offset is commitOffsetAtStart (-2).
FetchAtStart ==
    [p \in Parts |-> IF Len(log[p]) > 0
                     THEN [commit |-> committed[p], first |-> TRUE]
                     ELSE [commit |-> -2, first |-> FALSE]]

\* consume: read the committed and the end offsets of every partition.  One
\* without records is not consumed in the first pass, and from 0 afterwards.
fetchPartitions ==
    [p \in Parts |-> IF Len(log[p]) > 0
                     THEN [commit |-> committed[p], first |-> TRUE]
                     ELSE [commit |-> 0, first |-> FALSE]]

BeginCycle == /\ pc = "idle"
              /\ pc' = "cycle"
              /\ ps' = fetchPartitions
              /\ UNCHANGED <<kafkaVars, storeVars, cur, flush, faults>>

FirstPass == \E p \in Parts : ps[p].first

\* No commit (-1) means from the first record.
getStartOffset(commit) == IF commit > commitOffsetAtEnd THEN commit ELSE 0

\* Every partition once, then the one whose last record is oldest (which one
\* that is depends on the clock) while its offset is known.
MayConsume(p) == \/ ps[p].first
                 \/ ~FirstPass /\ ps[p].commit # commitOffsetAtEnd

\* The tenants with a trace in the section get a tenantStore to flush.
SectionRecs(t, p, start, next) ==
    {o \in start .. next - 1 : log[p][o + 1].tenant = t /\ log[p][o + 1].fits}

\* consumePartition: the section from the start offset to before offset next.
\* It ends with the consume duration, MaxBytesPerCycle, the end of the log or
\* a poll that timed out, hence after any record.
ConsumeSection(p, next) ==
    LET start == getStartOffset(ps[p].commit)
    IN  /\ pc = "cycle" /\ MayConsume(p)
        /\ start < next /\ next <= Len(log[p])
        /\ pc' = "flush"
        /\ cur' = [part |-> p, start |-> start, next |-> next]
        /\ flush' = [t \in Tenants |-> IF SectionRecs(t, p, start, next) = {} THEN NoFlush
                                       ELSE StartFlush]
        /\ UNCHANGED <<kafkaVars, storeVars, ps, faults>>

\* consumePartition without a record.  With records to read this is a poll
\* that timed out, a fault.
NoData(p) ==
    /\ pc = "cycle" /\ MayConsume(p)
    /\ \/ getStartOffset(ps[p].commit) >= Len(log[p]) /\ UNCHANGED faults
       \/ faults < MaxFaults /\ faults' = faults + 1
    /\ ps' = [ps EXCEPT ![p] = [commit |-> commitOffsetAtEnd, first |-> FALSE]]
    /\ UNCHANGED <<kafkaVars, storeVars, pc, cur, flush>>

\* The lag is below the cycle duration, or the laggiest partition's offset is
\* not known: wait for the next cycle.
EndCycle == /\ pc = "cycle" /\ ~FirstPass
            /\ pc' = "idle"
            /\ ps' = NoPartitions
            /\ UNCHANGED <<kafkaVars, storeVars, cur, flush, faults>>

-----------------------------------------------------------------------------
(* writer.flush: tenantStore.Flush of every tenant, concurrently.          *)

FlushID(t, n) == BlockID(t, cur.part, cur.start, n)
Free(t, n) == store[FlushID(t, n)].st = "none"

\* determineBlockIDs: the first ID without a block, and the live ones before it.
determineBlockIDs(t, n) == /\ Free(t, n)
                           /\ \A m \in 1 .. n - 1 : ~Free(t, m)

ExistingBlocks(t, n) == {FlushID(t, m) : m \in {m \in 1 .. n - 1 : Live(FlushID(t, m))}}

FlushBegins(t, n) == /\ pc = "flush" /\ flush[t].st = "start"
                     /\ determineBlockIDs(t, n)
                     /\ flush' = [flush EXCEPT ![t] = [st |-> "mark", seq |-> n,
                                                       old |-> ExistingBlocks(t, n)]]
                     /\ UNCHANGED <<kafkaVars, storeVars, pc, ps, cur, faults>>

\* MarkBlockCompacted of one block of an earlier attempt.
MarkExisting(t, b) == /\ pc = "flush" /\ flush[t].st = "mark" /\ b \in flush[t].old
                      /\ Live(b)
                      /\ store' = [store EXCEPT ![b].st = "compacted"]
                      /\ flush' = [flush EXCEPT ![t].old = @ \ {b}]
                      /\ UNCHANGED <<kafkaVars, archived, pc, ps, cur, faults>>

\* Variant: the block is written without the nocompact flag.
WriteUnflagged(t) ==
    /\ pc = "flush" /\ flush[t].st = "mark" /\ flush[t].old = {}
    /\ store' = [store EXCEPT ![FlushID(t, flush[t].seq)] =
                   [st |-> "live", noCompact |-> FALSE,
                    recs |-> SectionRecs(t, cur.part, cur.start, cur.next)]]
    /\ flush' = [flush EXCEPT ![t].st = "done"]
    /\ UNCHANGED <<kafkaVars, archived, pc, ps, cur, faults>>

\* CreateBlock and WriteBlock: the nocompact flag is in the store before
\* meta.json makes the block live.
WriteBlock(t) == /\ pc = "flush" /\ flush[t].st = "mark" /\ flush[t].old = {}
                 /\ store' = [store EXCEPT ![FlushID(t, flush[t].seq)] =
                                [st |-> "live", noCompact |-> TRUE,
                                 recs |-> SectionRecs(t, cur.part, cur.start, cur.next)]]
                 /\ flush' = [flush EXCEPT ![t].st = "done"]
                 /\ UNCHANGED <<kafkaVars, archived, pc, ps, cur, faults>>

\* Variants: the first error-free tenant ends the flush, or every tenant is
\* waited for, even one without a trace in the section.
FlushEndsEarly == /\ pc = "flush"
                  /\ \E t \in Tenants : flush[t].st = "done"
                  /\ pc' = "commit"
                  /\ UNCHANGED <<kafkaVars, storeVars, ps, cur, flush, faults>>

FlushEndsAll == /\ pc = "flush"
                /\ \A t \in Tenants : flush[t].st = "done"
                /\ pc' = "commit"
                /\ UNCHANGED <<kafkaVars, storeVars, ps, cur, flush, faults>>

FlushEnds == /\ pc = "flush"
             /\ \A t \in Tenants : flush[t].st \in {"absent", "done"}
             /\ pc' = "commit"
             /\ UNCHANGED <<kafkaVars, storeVars, ps, cur, flush, faults>>

\* commitOffset: the offset after the last record of the section.
CommitOffset == /\ pc = "commit"
                /\ committed' = [committed EXCEPT ![cur.part] = cur.next]
                /\ pc' = "allow"
                /\ UNCHANGED <<log, storeVars, ps, cur, flush, faults>>

\* Variant: every block of the section's generator loses its flag, not only
\* the one this attempt wrote.
AllowGenerator(t) ==
    /\ pc = "allow" /\ flush[t].st = "done"
    /\ store' = [b \in BlockIDs |->
                    IF b \in {FlushID(t, n) : n \in Seqs}
                    THEN [store[b] EXCEPT !.noCompact = FALSE] ELSE store[b]]
    /\ flush' = [flush EXCEPT ![t].st = "allowed"]
    /\ UNCHANGED <<kafkaVars, archived, pc, ps, cur, faults>>

\* tenantStore.AllowCompaction deletes the flag ...
AllowCompaction(t) ==
    /\ pc = "allow" /\ flush[t].st = "done"
    /\ store' = [store EXCEPT ![FlushID(t, flush[t].seq)].noCompact = FALSE]
    /\ flush' = [flush EXCEPT ![t].st = "allowed"]
    /\ UNCHANGED <<kafkaVars, archived, pc, ps, cur, faults>>

\* ... and an error is logged: the block keeps the flag.
AllowFails(t) ==
    /\ pc = "allow" /\ flush[t].st = "done"
    /\ faults < MaxFaults /\ faults' = faults + 1
    /\ flush' = [flush EXCEPT ![t].st = "allowed"]
    /\ UNCHANGED <<kafkaVars, storeVars, pc, ps, cur>>

EndSection == /\ pc = "allow"
              /\ \A t \in Tenants : flush[t].st \in {"absent", "allowed"}
              /\ ps' = [ps EXCEPT ![cur.part] = [commit |-> cur.next, first |-> FALSE]]
              /\ pc' = "cycle"
              /\ cur' = NoSection /\ flush' = NoFlushes
              /\ UNCHANGED <<kafkaVars, storeVars, faults>>

-----------------------------------------------------------------------------
(* Faults.  consume returns the error, and running starts the next cycle;  *)
(* a crash loses the same state.                                           *)

Restart == /\ faults < MaxFaults /\ faults' = faults + 1
           /\ pc' = "idle" /\ ps' = NoPartitions
           /\ cur' = NoSection /\ flush' = NoFlushes
           /\ UNCHANGED <<log, storeVars>>

\* A fetch, decode, flush or commit error, or a crash.  errgroup.Wait returns
\* once every tenant has gone as far as it goes, so any progress is possible.
Fail == /\ pc # "idle"
        /\ Restart
        /\ UNCHANGED committed

\* The commit was applied and its answer lost until the retries ran out.
CommitLost == /\ pc = "commit"
              /\ committed' = [committed EXCEPT ![cur.part] = cur.next]
              /\ Restart

-----------------------------------------------------------------------------
(* Around the block-builder.                                               *)

\* A distributor appends a record.
Produce(p, r) == /\ Len(log[p]) < MaxRecords
                 /\ log' = [log EXCEPT ![p] = Append(@, r)]
                 /\ UNCHANGED <<committed, storeVars, builderVars, faults>>

\* Compaction rewrites a block of the scheduler's blocklist.  The scheduler's
\* poller skips the blocks with the flag when it reads the blocks itself; that
\* the flag is honoured when it reads a tenant index is assumed here, and
\* FlagRespected of the module Blocklist is about that.
CompactBlock(b) == /\ Compactable(b)
                   /\ store' = [store EXCEPT ![b].st = "compacted"]
                   /\ archived' = archived \cup {<<b.part, o>> : o \in store[b].recs}
                   /\ UNCHANGED <<kafkaVars, builderVars, faults>>

\* Retention clears a block that has been compacted for long enough.
ClearBlock(b) == /\ store[b].st = "compacted"
                 /\ store' = [store EXCEPT ![b] = NoBlock]
                 /\ UNCHANGED <<kafkaVars, archived, builderVars, faults>>

-----------------------------------------------------------------------------
PartitionStep(p) == NoData(p) \/ \E n \in 1 .. MaxRecords : ConsumeSection(p, n)

TenantStep(t) == \/ \E n \in Seqs : FlushBegins(t, n)
                 \/ \E b \in BlockIDs : MarkExisting(t, b)
                 \/ WriteBlock(t) \/ AllowCompaction(t) \/ AllowFails(t)

Builder == \/ BeginCycle \/ EndCycle \/ FlushEnds \/ CommitOffset \/ EndSection
           \/ \E p \in Parts : PartitionStep(p)
           \/ \E t \in Tenants : TenantStep(t)

Environment == \/ \E p \in Parts, r \in Records : Produce(p, r)
               \/ \E b \in BlockIDs : CompactBlock(b) \/ ClearBlock(b)

Next == Builder \/ Fail \/ CommitLost \/ Environment

Spec == Init /\ [][Next]_vars

\* running loops for ever, and the errors of a step come to an end.
FairSpec == Spec /\ WF_vars(Builder)

-----------------------------------------------------------------------------
(* Properties.                                                             *)

\* The variables keep their types, and a section lies in its log.
TypeOK == /\ log \in [Parts -> Seq(Records)]
          /\ \A p \in Parts : Len(log[p]) <= MaxRecords
          /\ committed \in [Parts -> -1 .. MaxRecords]
          /\ store \in [BlockIDs -> BlockStates]
          /\ archived \subseteq Parts \X Offsets
          /\ pc \in {"idle", "cycle", "flush", "commit", "allow"}
          /\ ps \in [Parts -> [commit : -1 .. MaxRecords, first : BOOLEAN]]
          /\ cur \in [part : Parts, start : 0 .. MaxRecords, next : 0 .. MaxRecords]
          /\ cur.next <= Len(log[cur.part])
          /\ flush \in [Tenants -> FlushStates]
          /\ faults \in 0 .. MaxFaults

Holds(b, p, o) == b.part = p /\ o \in store[b].recs

\* No record is lost: whatever was committed, lost answers included, is in a
\* live block of its tenant or was rewritten by compaction, although every
\* retry first marks the blocks of the attempt before it compacted.
Durable ==
    \A p \in Parts : \A o \in Offsets :
        (o < committed[p] /\ log[p][o + 1].fits) =>
            \/ <<p, o>> \in archived
            \/ \E b \in BlockIDs : Live(b) /\ b.tenant = log[p][o + 1].tenant /\ Holds(b, p, o)

\* A record reaches compaction once: no two compactable blocks hold it, and
\* none holds a record that was rewritten already.  The blocks that an
\* aborted attempt leaves behind keep their nocompact flag.
ReleasedOnce ==
    \A b \in BlockIDs : Compactable(b) =>
        \A o \in store[b].recs :
            /\ <<b.part, o>> \notin archived
            /\ \A c \in BlockIDs \ {b} : Compactable(c) => ~Holds(c, b.part, o)

\* The block-builder implements SectionRelease: offsets only move forward,
\* and what compaction may take lies below them and is never taken back, not
\* even by a retry that replaces blocks.
Rel == INSTANCE SectionRelease
         WITH done <- [p \in Parts |-> getStartOffset(committed[p])],
              released <- archived \cup {r \in Parts \X Offsets :
                             \E b \in BlockIDs : Compactable(b) /\ Holds(b, r[1], r[2])}
ReleaseSpec == Rel!RelSpec

\* Every record a partition receives is committed in the end.
EveryRecordCommitted ==
    \A p \in Parts, n \in 1 .. MaxRecords : Len(log[p]) >= n ~> committed[p] >= n
=============================================================================
