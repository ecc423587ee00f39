------------------------- MODULE BlockBuilderProofs -------------------------
(***************************************************************************)
(* Durable, ReleasedOnce and the implementation of SectionRelease, for any *)
(* tenants, partitions and bounds.                                         *)
(*                                                                         *)
(* None of them is inductive alone.  What carries them is that everything  *)
(* an attempt touches lies at or above the committed offset (CurOK, PsOK   *)
(* and BlocksOK) while everything compaction may take lies below it        *)
(* (Below), so a retry can never reach a block that matters.               *)
(***************************************************************************)
EXTENDS BlockBuilder, TLAPS

InSection == pc \in {"flush", "commit", "allow"}

\* What a block holds: records of its tenant, from its start offset on.
BlocksOK == \A b \in BlockIDs : \A o \in store[b].recs :
                /\ b.start <= o /\ o < Len(log[b.part])
                /\ log[b.part][o + 1].tenant = b.tenant

CommitOK == \A p \in Parts : committed[p] <= Len(log[p])

\* Compaction only ever sees records below the committed offset.
Below == /\ \A b \in BlockIDs : Compactable(b) => \A o \in store[b].recs : o < committed[b.part]
         /\ \A r \in archived : r[2] < committed[r[1]]

\* The offsets of the cycle agree with the committed ones where they are used.
PsOK == \A p \in Parts :
            \/ ~ps[p].first /\ ps[p].commit = -1
            \/ pc = "allow" /\ p = cur.part
            \/ getStartOffset(ps[p].commit) = getStartOffset(committed[p])

\* The section begins at the committed offset until it is committed itself.
CurOK == /\ InSection => cur.start < cur.next
         /\ pc \in {"flush", "commit"} => cur.start = getStartOffset(committed[cur.part])
         /\ pc = "allow" => cur.next = committed[cur.part]

\* A tenant's flush: nothing to write, blocks of this section to replace, or
\* a live and flagged block with all of the tenant's records.
TenantFlushOK(t) ==
    /\ flush[t].st = "absent" => SectionRecs(t, cur.part, cur.start, cur.next) = {}
    /\ flush[t].st = "mark" =>
          /\ flush[t].seq \in Seqs
          /\ \A b \in flush[t].old : b.tenant = t /\ b.part = cur.part /\ b.start = cur.start
    /\ flush[t].st = "done" =>
          /\ flush[t].seq \in Seqs
          /\ store[FlushID(t, flush[t].seq)] =
                [st |-> "live", noCompact |-> TRUE,
                 recs |-> SectionRecs(t, cur.part, cur.start, cur.next)]
    /\ pc = "flush" => flush[t].st # "allowed"
    /\ pc = "commit" => flush[t].st \in {"absent", "done"}
    /\ pc = "allow" => flush[t].st \in {"absent", "done", "allowed"}

FlushOK == InSection => \A t \in Tenants : TenantFlushOK(t)

\* Until a tenant's block is released, what compaction has of the tenant lies
\* below the section.
AllowOK == pc = "allow" => \A t \in Tenants : flush[t].st = "done" =>
    /\ \A b \in BlockIDs : (Compactable(b) /\ b.part = cur.part /\ b.tenant = t) =>
          \A o \in store[b].recs : o < cur.start
    /\ \A r \in archived :
          (r[1] = cur.part /\ log[r[1]][r[2] + 1].tenant = t) => r[2] < cur.start

-----------------------------------------------------------------------------
LEMMA BoundsNat == /\ MaxRecords \in Nat /\ MaxSeq \in Nat /\ MaxFaults \in Nat
BY BoundsAssumption

LEMMA InitialSection == NoSection \in [part : Parts, start : {0}, next : {0}]
<1>1. (CHOOSE p \in Parts : TRUE) \in Parts
  BY PartsAssumption
<1> QED
  BY <1>1 DEF NoSection

\* The log only grows: the records that are there stay.
LEMMA LogGrows ==
    ASSUME TypeOK, Next
    PROVE  \A p \in Parts : /\ Len(log[p]) <= Len(log'[p])
                            /\ \A i \in 1 .. Len(log[p]) : log'[p][i] = log[p][i]
                            /\ Len(log'[p]) \in Nat /\ Len(log[p]) \in Nat
<1> USE DEF TypeOK
<1>1. ASSUME UNCHANGED log
      PROVE  \A p \in Parts : /\ Len(log[p]) <= Len(log'[p])
                              /\ \A i \in 1 .. Len(log[p]) : log'[p][i] = log[p][i]
                              /\ Len(log'[p]) \in Nat /\ Len(log[p]) \in Nat
  BY <1>1
<1>2. ASSUME NEW q \in Parts, NEW r \in Records, Produce(q, r)
      PROVE  \A p \in Parts : /\ Len(log[p]) <= Len(log'[p])
                              /\ \A i \in 1 .. Len(log[p]) : log'[p][i] = log[p][i]
                              /\ Len(log'[p]) \in Nat /\ Len(log[p]) \in Nat
  BY <1>2 DEF Produce
<1>3. CASE Builder
  BY <1>1, <1>3 DEF Builder, PartitionStep, TenantStep, BeginCycle, EndCycle, FlushEnds, CommitOffset, EndSection, NoData,
     ConsumeSection, FlushBegins, MarkExisting, WriteBlock, AllowCompaction, AllowFails, kafkaVars
<1>4. CASE Fail \/ CommitLost
  BY <1>1, <1>4 DEF Fail, CommitLost, Restart
<1>5. CASE Environment
  BY <1>1, <1>2, <1>5 DEF Environment, CompactBlock, ClearBlock, kafkaVars
<1> QED
  BY <1>3, <1>4, <1>5 DEF Next

LEMMA TypeInit == Init => TypeOK
<1> SUFFICES ASSUME Init PROVE TypeOK
  OBVIOUS
<1>1. cur \in [part : Parts, start : {0}, next : {0}]
  BY InitialSection DEF Init
<1>2. store \in [BlockIDs -> BlockStates]
  BY DEF Init, NoBlock, BlockStates
<1>3. flush \in [Tenants -> FlushStates]
  BY BoundsNat DEF Init, NoFlushes, NoFlush, FlushStates
<1> QED
  BY <1>1, <1>2, <1>3, BoundsNat DEF Init, TypeOK, NoPartitions, commitOffsetAtEnd

\* One lemma per variable that needs an argument.
LEMMA TypeLog ==
    ASSUME TypeOK, Next
    PROVE  /\ log' \in [Parts -> Seq(Records)]
           /\ \A p \in Parts : Len(log'[p]) <= MaxRecords
<1> USE DEF TypeOK
<1>1. ASSUME NEW q \in Parts, NEW r \in Records, Produce(q, r)
      PROVE  /\ log' \in [Parts -> Seq(Records)]
             /\ \A p \in Parts : Len(log'[p]) <= MaxRecords
  BY <1>1, BoundsNat DEF Produce
<1>3. CASE Builder
  BY <1>3 DEF Builder, PartitionStep, TenantStep, BeginCycle, EndCycle, FlushEnds, CommitOffset, EndSection, NoData,
     ConsumeSection, FlushBegins, MarkExisting, WriteBlock, AllowCompaction, AllowFails, kafkaVars
<1>4. CASE Fail \/ CommitLost
  BY <1>4 DEF Fail, CommitLost, Restart
<1>5. CASE Environment
  BY <1>1, <1>5 DEF Environment, CompactBlock, ClearBlock, kafkaVars
<1> QED
  BY <1>3, <1>4, <1>5 DEF Next

\* A section's records are offsets of the section.
LEMMA SectionOffsets ==
    ASSUME TypeOK, NEW t \in Tenants
    PROVE  SectionRecs(t, cur.part, cur.start, cur.next) \subseteq Offsets
BY BoundsNat DEF TypeOK, SectionRecs, Offsets

LEMMA FlushIDType ==
    ASSUME TypeOK, CurOK, InSection, NEW t \in Tenants, NEW n \in Seqs
    PROVE  FlushID(t, n) \in BlockIDs
BY BoundsNat DEF TypeOK, CurOK, FlushID, BlockID, BlockIDs, Offsets

LEMMA TypeStore ==
    ASSUME TypeOK, CurOK, FlushOK, Next
    PROVE  store' \in [BlockIDs -> BlockStates]
<1> USE DEF TypeOK
<1>1. ASSUME NEW t \in Tenants, NEW b \in BlockIDs, MarkExisting(t, b)
      PROVE  store' \in [BlockIDs -> BlockStates]
  BY <1>1 DEF MarkExisting, BlockStates
<1>2. ASSUME NEW t \in Tenants, WriteBlock(t)
      PROVE  store' \in [BlockIDs -> BlockStates]
  BY <1>2, SectionOffsets DEF WriteBlock, BlockStates
<1>3. ASSUME NEW t \in Tenants, AllowCompaction(t)
      PROVE  store' \in [BlockIDs -> BlockStates]
  BY <1>3 DEF AllowCompaction, BlockStates
<1>4. ASSUME NEW b \in BlockIDs, CompactBlock(b)
      PROVE  store' \in [BlockIDs -> BlockStates]
  <2>1. store' = [store EXCEPT ![b].st = "compacted"]
    BY <1>4 DEF CompactBlock
  <2> QED
    BY <2>1 DEF BlockStates
<1>9. ASSUME NEW b \in BlockIDs, ClearBlock(b)
      PROVE  store' \in [BlockIDs -> BlockStates]
  <2>1. NoBlock \in BlockStates
    BY DEF NoBlock, BlockStates
  <2> QED
    BY <1>9, <2>1 DEF ClearBlock
<1>5. CASE UNCHANGED store
  BY <1>5
<1>6. CASE Builder
  BY <1>1, <1>2, <1>3, <1>5, <1>6 DEF Builder, PartitionStep, TenantStep, BeginCycle, EndCycle, FlushEnds, CommitOffset,
     EndSection, NoData, ConsumeSection, FlushBegins, AllowFails, storeVars
<1>7. CASE Fail \/ CommitLost
  BY <1>5, <1>7 DEF Fail, CommitLost, Restart, storeVars
<1>8. CASE Environment
  BY <1>4, <1>9, <1>5, <1>8 DEF Environment, Produce, storeVars
<1> QED
  BY <1>6, <1>7, <1>8 DEF Next

LEMMA TypeFlush ==
    ASSUME TypeOK, CurOK, Next
    PROVE  flush' \in [Tenants -> FlushStates]
<1> USE DEF TypeOK
<1>1. NoFlush \in FlushStates /\ StartFlush \in FlushStates
  <2>1. NoFlush \in FlushStates
    BY BoundsNat DEF NoFlush, FlushStates
  <2>2. StartFlush \in FlushStates
    BY BoundsNat DEF StartFlush, FlushStates
  <2> QED
    BY <2>1, <2>2
<1>2. ASSUME NEW p \in Parts, NEW n \in 1 .. MaxRecords, ConsumeSection(p, n)
      PROVE  flush' \in [Tenants -> FlushStates]
  <2>1. \A t \in Tenants : flush'[t] \in {NoFlush, StartFlush}
    BY <1>2 DEF ConsumeSection
  <2>2. flush' = [t \in Tenants |-> flush'[t]]
    BY <1>2 DEF ConsumeSection
  <2> QED
    BY <1>1, <2>1, <2>2
<1>3. ASSUME NEW t \in Tenants, NEW n \in Seqs, FlushBegins(t, n)
      PROVE  flush' \in [Tenants -> FlushStates]
  <2>1. ExistingBlocks(t, n) \subseteq BlockIDs
    BY <1>3, FlushIDType, BoundsNat DEF ExistingBlocks, FlushBegins, InSection, Seqs
  <2>2. [st |-> "mark", seq |-> n, old |-> ExistingBlocks(t, n)] \in FlushStates
    BY <2>1, BoundsNat DEF FlushStates, Seqs
  <2> QED
    BY <1>3, <2>2 DEF FlushBegins
<1>4. ASSUME NEW t \in Tenants, NEW b \in BlockIDs, MarkExisting(t, b)
      PROVE  flush' \in [Tenants -> FlushStates]
  BY <1>4 DEF MarkExisting, FlushStates
<1>5. ASSUME NEW t \in Tenants, WriteBlock(t) \/ AllowCompaction(t) \/ AllowFails(t)
      PROVE  flush' \in [Tenants -> FlushStates]
  <2>1. CASE flush' = [flush EXCEPT ![t].st = "done"]
    BY <2>1 DEF FlushStates
  <2>2. CASE flush' = [flush EXCEPT ![t].st = "allowed"]
    BY <2>2 DEF FlushStates
  <2> QED
    BY <1>5, <2>1, <2>2 DEF WriteBlock, AllowCompaction, AllowFails
<1>6. CASE flush' = NoFlushes
  BY <1>1, <1>6 DEF NoFlushes
<1>7. CASE UNCHANGED flush
  BY <1>7
<1>8. CASE Builder
  BY <1>2, <1>3, <1>4, <1>5, <1>6, <1>7, <1>8 DEF Builder, PartitionStep, TenantStep, BeginCycle, EndCycle, FlushEnds,
     CommitOffset, EndSection, NoData
<1>9. CASE Fail \/ CommitLost
  BY <1>6, <1>9 DEF Fail, CommitLost, Restart
<1>10. CASE Environment
  BY <1>7, <1>10 DEF Environment, Produce, CompactBlock, ClearBlock, builderVars
<1> QED
  BY <1>8, <1>9, <1>10 DEF Next

\* The remaining variables.
TypeRest == /\ committed \in [Parts -> -1 .. MaxRecords]
            /\ archived \subseteq Parts \X Offsets
            /\ pc \in {"idle", "cycle", "flush", "commit", "allow"}
            /\ ps \in [Parts -> [commit : -1 .. MaxRecords, first : BOOLEAN]]
            /\ cur \in [part : Parts, start : 0 .. MaxRecords, next : 0 .. MaxRecords]
            /\ faults \in 0 .. MaxFaults

LEMMA TypeRestStep ==
    ASSUME TypeOK, Next
    PROVE  TypeRest'
<1>0. TypeRest
  BY DEF TypeOK, TypeRest
<1>1. /\ NoSection \in [part : Parts, start : 0 .. MaxRecords, next : 0 .. MaxRecords]
      /\ NoPartitions \in [Parts -> [commit : -1 .. MaxRecords, first : BOOLEAN]]
  BY InitialSection, BoundsNat DEF NoPartitions, commitOffsetAtEnd
<1>2. fetchPartitions \in [Parts -> [commit : -1 .. MaxRecords, first : BOOLEAN]]
  BY BoundsNat DEF fetchPartitions, TypeOK
<1>3. CASE BeginCycle \/ EndCycle \/ FlushEnds
  BY <1>0, <1>1, <1>2, <1>3 DEF TypeRest, BeginCycle, EndCycle, FlushEnds, kafkaVars, storeVars
<1>11. CASE CommitOffset
  BY <1>0, <1>11, BoundsNat DEF TypeRest, CommitOffset, storeVars
<1>12. CASE EndSection
  BY <1>0, <1>1, <1>12, BoundsNat DEF TypeRest, EndSection, kafkaVars, storeVars
<1>4. ASSUME NEW p \in Parts, NoData(p)
      PROVE  TypeRest'
  BY <1>0, <1>4, BoundsNat DEF TypeRest, NoData, kafkaVars, storeVars, commitOffsetAtEnd
<1>5. ASSUME NEW p \in Parts, NEW n \in 1 .. MaxRecords, ConsumeSection(p, n)
      PROVE  TypeRest'
  <2>1. getStartOffset(ps[p].commit) \in 0 .. MaxRecords
    BY <1>0, BoundsNat DEF TypeRest, getStartOffset, commitOffsetAtEnd
  <2> QED
    BY <1>0, <1>5, <2>1, BoundsNat DEF TypeRest, ConsumeSection, kafkaVars, storeVars
<1>6. ASSUME NEW t \in Tenants, TenantStep(t)
      PROVE  TypeRest'
  BY <1>0, <1>6, BoundsNat DEF TypeRest, TenantStep, FlushBegins, MarkExisting, WriteBlock, AllowCompaction,
     AllowFails, kafkaVars, storeVars
<1>7. CASE Fail \/ CommitLost
  BY <1>0, <1>1, <1>7, BoundsNat DEF TypeRest, Fail, CommitLost, Restart, storeVars
<1>8. ASSUME NEW p \in Parts, NEW r \in Records, Produce(p, r)
      PROVE  TypeRest'
  BY <1>0, <1>8 DEF TypeRest, Produce, storeVars, builderVars
<1>9. ASSUME NEW b \in BlockIDs, CompactBlock(b)
      PROVE  TypeRest'
  <2>1. b.part \in Parts /\ store[b].recs \subseteq Offsets
    BY DEF BlockIDs, TypeOK, BlockStates
  <2>2. archived' \subseteq Parts \X Offsets
    BY <1>0, <1>9, <2>1 DEF TypeRest, CompactBlock
  <2> QED
    BY <1>0, <1>9, <2>2 DEF TypeRest, CompactBlock, kafkaVars, builderVars
<1>10. ASSUME NEW b \in BlockIDs, ClearBlock(b)
       PROVE  TypeRest'
  BY <1>0, <1>10 DEF TypeRest, ClearBlock, kafkaVars, builderVars
<1>13. CASE Builder
  BY <1>3, <1>4, <1>5, <1>6, <1>11, <1>12, <1>13 DEF Builder, PartitionStep
<1>14. CASE Environment
  BY <1>8, <1>9, <1>10, <1>14 DEF Environment
<1> QED
  BY <1>7, <1>13, <1>14 DEF Next

LEMMA CurInLog ==
    ASSUME TypeOK, Next
    PROVE  cur'.next <= Len(log'[cur'.part])
<1>1. cur' \in [part : Parts, start : 0 .. MaxRecords, next : 0 .. MaxRecords]
  BY TypeRestStep DEF TypeRest
<1>2. CASE UNCHANGED cur
  BY <1>1, <1>2, LogGrows DEF TypeOK
<1>3. CASE cur' = NoSection
  BY <1>1, <1>3, LogGrows, InitialSection
<1>4. ASSUME NEW p \in Parts, NEW n \in 1 .. MaxRecords, ConsumeSection(p, n)
      PROVE  cur'.next <= Len(log'[cur'.part])
  BY <1>4, LogGrows DEF ConsumeSection, kafkaVars
<1> QED
  BY <1>2, <1>3, <1>4 DEF Next, Builder, PartitionStep, TenantStep, Environment, BeginCycle, EndCycle, FlushEnds, CommitOffset,
     EndSection, NoData, FlushBegins, MarkExisting, WriteBlock, AllowCompaction, AllowFails, Fail,
     CommitLost, Restart, Produce, CompactBlock, ClearBlock, builderVars

LEMMA TypeStep ==
    ASSUME TypeOK, CurOK, FlushOK, Next
    PROVE  TypeOK'
BY TypeLog, TypeStore, TypeFlush, TypeRestStep, CurInLog DEF TypeOK, TypeRest

-----------------------------------------------------------------------------
(* The steps that change the object store, and the ones that do not.       *)

StoreStep == \/ \E t \in Tenants : \/ \E b \in BlockIDs : MarkExisting(t, b)
                                   \/ WriteBlock(t) \/ AllowCompaction(t)
             \/ \E b \in BlockIDs : CompactBlock(b) \/ ClearBlock(b)

LEMMA StoreSteps == ASSUME Next PROVE StoreStep \/ UNCHANGED <<store, archived>>
BY DEF Next, Builder, PartitionStep, TenantStep, Environment, BeginCycle, EndCycle, FlushEnds,
   CommitOffset, EndSection, NoData, ConsumeSection, FlushBegins, AllowFails, Fail, CommitLost,
   Restart, Produce, storeVars, StoreStep

\* The commit moves to the end of the section, or stays.
CommitStep == CommitOffset \/ CommitLost

LEMMA CommitSteps == ASSUME Next PROVE CommitStep \/ UNCHANGED committed
BY DEF Next, Builder, PartitionStep, TenantStep, Environment, BeginCycle, EndCycle, FlushEnds,
   EndSection, NoData, ConsumeSection, FlushBegins, MarkExisting, WriteBlock, AllowCompaction,
   AllowFails, Fail, Produce, CompactBlock, ClearBlock, kafkaVars, CommitStep

\* A commit only moves forward, and never past the log.
LEMMA CommitForward ==
    ASSUME TypeOK, CurOK, Next
    PROVE  \A p \in Parts : /\ committed[p] <= committed'[p]
                            /\ p # cur.part => committed'[p] = committed[p]
                            /\ committed[p] \in Int /\ committed'[p] \in Int
<1>1. CASE CommitStep
  BY <1>1, BoundsNat DEF TypeOK, CurOK, InSection, CommitStep, CommitOffset, CommitLost, getStartOffset,
     commitOffsetAtEnd
<1>2. CASE UNCHANGED committed
  BY <1>2, BoundsNat DEF TypeOK
<1> QED
  BY <1>1, <1>2, CommitSteps

LEMMA CommitInLog ==
    ASSUME TypeOK, CurOK, CommitOK, Next
    PROVE  CommitOK'
<1>1. \A p \in Parts : /\ Len(log[p]) <= Len(log'[p]) /\ committed[p] \in Int
                       /\ Len(log'[p]) \in Nat /\ Len(log[p]) \in Nat
  BY LogGrows, CommitForward
<1>2. cur.part \in Parts /\ cur.next <= Len(log[cur.part]) /\ cur.next \in Nat
  BY BoundsNat DEF TypeOK
<1>3. ASSUME CommitStep, NEW p \in Parts
      PROVE  committed'[p] = IF p = cur.part THEN cur.next ELSE committed[p]
  BY <1>3 DEF TypeOK, CommitStep, CommitOffset, CommitLost
<1>4. CASE CommitStep
  BY <1>1, <1>2, <1>3, <1>4 DEF CommitOK
<1>5. CASE UNCHANGED committed
  BY <1>1, <1>5 DEF CommitOK
<1> QED
  BY <1>4, <1>5, CommitSteps

\* A section's records are what they were when it was cut.
LEMMA SectionStable ==
    ASSUME TypeOK, Next, NEW t \in Tenants, NEW p \in Parts, NEW a \in Nat, NEW n \in Nat,
           n <= Len(log[p])
    PROVE  SectionRecs(t, p, a, n)' = SectionRecs(t, p, a, n)
<1>1. \A o \in a .. n - 1 : log'[p][o + 1] = log[p][o + 1]
  BY LogGrows
<1> QED
  BY <1>1 DEF SectionRecs

LEMMA SectionFacts ==
    ASSUME TypeOK, NEW t \in Tenants
    PROVE  \A o \in SectionRecs(t, cur.part, cur.start, cur.next) :
              /\ cur.start <= o /\ o < cur.next /\ o < Len(log[cur.part]) /\ o \in Nat
              /\ log[cur.part][o + 1].tenant = t
BY BoundsNat DEF TypeOK, SectionRecs

LEMMA BlocksStep ==
    ASSUME TypeOK, CurOK, FlushOK, BlocksOK, Next
    PROVE  BlocksOK'
<1>1. ASSUME NEW b \in BlockIDs, NEW o \in store[b].recs
      PROVE  /\ b.start <= o /\ o < Len(log'[b.part])
             /\ log'[b.part][o + 1].tenant = b.tenant
  <2>1. /\ b.start <= o /\ o < Len(log[b.part]) /\ o \in Nat /\ b.part \in Parts
        /\ log[b.part][o + 1].tenant = b.tenant
    BY <1>1, BoundsNat DEF BlocksOK, TypeOK, BlockStates, BlockIDs, Offsets
  <2>2. /\ log'[b.part][o + 1] = log[b.part][o + 1] /\ Len(log[b.part]) <= Len(log'[b.part])
        /\ Len(log'[b.part]) \in Nat /\ Len(log[b.part]) \in Nat
    BY <2>1, LogGrows
  <2> QED
    BY <2>1, <2>2
<1>2. CASE \A b \in BlockIDs : store'[b].recs \subseteq store[b].recs
  BY <1>1, <1>2 DEF BlocksOK
<1>3. ASSUME NEW t \in Tenants, WriteBlock(t)
      PROVE  BlocksOK'
  <2>1. flush[t].seq \in Seqs /\ InSection
    BY <1>3 DEF FlushOK, TenantFlushOK, InSection, WriteBlock
  <2>2. PICK w \in BlockIDs : w = FlushID(t, flush[t].seq)
    BY <2>1, FlushIDType
  <2>3. w.start = cur.start /\ w.part = cur.part /\ w.tenant = t
    BY <2>2 DEF FlushID, BlockID
  <2>4. /\ store'[w].recs = SectionRecs(t, cur.part, cur.start, cur.next)
        /\ \A b \in BlockIDs \ {w} : store'[b] = store[b]
    BY <1>3, <2>2 DEF WriteBlock, TypeOK
  <2>5. log' = log
    BY <1>3 DEF WriteBlock, kafkaVars
  <2> QED
    BY <1>1, <2>3, <2>4, <2>5, SectionFacts DEF BlocksOK
<1>4. ASSUME StoreStep, \A t \in Tenants : ~WriteBlock(t)
      PROVE  \A b \in BlockIDs : store'[b].recs \subseteq store[b].recs
  <2>1. ASSUME NEW b \in BlockIDs, store' = [store EXCEPT ![b].st = "compacted"]
        PROVE  \A c \in BlockIDs : store'[c].recs \subseteq store[c].recs
    BY <2>1 DEF TypeOK, BlockStates
  <2>2. ASSUME NEW b \in BlockIDs, store' = [store EXCEPT ![b].noCompact = FALSE]
        PROVE  \A c \in BlockIDs : store'[c].recs \subseteq store[c].recs
    BY <2>2 DEF TypeOK, BlockStates
  <2>3. ASSUME NEW b \in BlockIDs, ClearBlock(b)
        PROVE  \A c \in BlockIDs : store'[c].recs \subseteq store[c].recs
    BY <2>3 DEF TypeOK, ClearBlock, NoBlock
  <2>4. ASSUME NEW t \in Tenants, AllowCompaction(t)
        PROVE  \A c \in BlockIDs : store'[c].recs \subseteq store[c].recs
    <3>1. FlushID(t, flush[t].seq) \in BlockIDs
      BY <2>4, FlushIDType DEF AllowCompaction, FlushOK, TenantFlushOK, InSection
    <3> QED
      BY <2>2, <2>4, <3>1 DEF AllowCompaction
  <2> QED
    BY <1>4, <2>1, <2>3, <2>4 DEF StoreStep, MarkExisting, CompactBlock
<1> QED
  BY <1>2, <1>3, <1>4, StoreSteps

\* A block is compactable after a step because it was, or because its flag
\* has just been deleted.
LEMMA CompactableStep ==
    ASSUME TypeOK, CurOK, FlushOK, Next, NEW b \in BlockIDs, Compactable(b)'
    PROVE  \/ Compactable(b) /\ store'[b] = store[b]
           \/ \E t \in Tenants : /\ AllowCompaction(t) /\ b = FlushID(t, flush[t].seq)
                                 /\ store'[b].recs = store[b].recs
<1> USE DEF Compactable, Live
<1>1. CASE UNCHANGED <<store, archived>>
  BY <1>1
<1>2. ASSUME NEW c \in BlockIDs, store' = [store EXCEPT ![c].st = "compacted"]
      PROVE  Compactable(b) /\ store'[b] = store[b]
  BY <1>2 DEF TypeOK, BlockStates
<1>3. ASSUME NEW t \in Tenants, WriteBlock(t)
      PROVE  Compactable(b) /\ store'[b] = store[b]
  BY <1>3 DEF TypeOK, WriteBlock
<1>4. ASSUME NEW t \in Tenants, AllowCompaction(t), b = FlushID(t, flush[t].seq)
      PROVE  store'[b].recs = store[b].recs
  BY <1>4 DEF TypeOK, BlockStates, AllowCompaction
<1>5. ASSUME NEW t \in Tenants, AllowCompaction(t), b # FlushID(t, flush[t].seq)
      PROVE  Compactable(b) /\ store'[b] = store[b]
  BY <1>5 DEF TypeOK, AllowCompaction
<1>6. ASSUME NEW c \in BlockIDs, ClearBlock(c)
      PROVE  Compactable(b) /\ store'[b] = store[b]
  BY <1>6 DEF TypeOK, ClearBlock, NoBlock
<1>7. CASE StoreStep
  BY <1>2, <1>3, <1>4, <1>5, <1>6, <1>7 DEF StoreStep, MarkExisting, CompactBlock
<1> QED
  BY <1>1, <1>7, StoreSteps

LEMMA ArchivedStep ==
    ASSUME Next
    PROVE  /\ archived \subseteq archived'
           /\ \A r \in archived' : \/ r \in archived
                                   \/ \E b \in BlockIDs : /\ CompactBlock(b)
                                                          /\ r[1] = b.part
                                                          /\ r[2] \in store[b].recs
<1>1. CASE UNCHANGED archived
  BY <1>1
<1>2. ASSUME NEW b \in BlockIDs, CompactBlock(b)
      PROVE  /\ archived \subseteq archived'
             /\ \A r \in archived' : \/ r \in archived
                                     \/ r[1] = b.part /\ r[2] \in store[b].recs
  BY <1>2 DEF CompactBlock
<1> QED
  BY <1>1, <1>2, StoreSteps DEF StoreStep, MarkExisting, WriteBlock, AllowCompaction, ClearBlock

\* A live block stays as it is, unless it is marked, compacted or overwritten.
LEMMA LiveStep ==
    ASSUME TypeOK, Next, NEW b \in BlockIDs, Live(b)
    PROVE  \/ Live(b)' /\ store'[b].recs = store[b].recs
           \/ \E t \in Tenants : MarkExisting(t, b)
           \/ CompactBlock(b)
           \/ \E t \in Tenants : WriteBlock(t) /\ b = FlushID(t, flush[t].seq)
<1> USE DEF Live
<1>1. CASE UNCHANGED <<store, archived>>
  BY <1>1
<1>2. ASSUME NEW c \in BlockIDs, c # b, store' = [store EXCEPT ![c].st = "compacted"]
      PROVE  Live(b)' /\ store'[b].recs = store[b].recs
  BY <1>2 DEF TypeOK, BlockStates
<1>3. ASSUME NEW t \in Tenants, WriteBlock(t), b # FlushID(t, flush[t].seq)
      PROVE  Live(b)' /\ store'[b].recs = store[b].recs
  BY <1>3 DEF TypeOK, WriteBlock
<1>4. ASSUME NEW t \in Tenants, AllowCompaction(t)
      PROVE  Live(b)' /\ store'[b].recs = store[b].recs
  <2>1. store' = [store EXCEPT ![FlushID(t, flush[t].seq)].noCompact = FALSE]
    BY <1>4 DEF AllowCompaction
  <2> QED
    BY <2>1 DEF TypeOK, BlockStates
<1>5. ASSUME NEW c \in BlockIDs, ClearBlock(c)
      PROVE  Live(b)' /\ store'[b].recs = store[b].recs
  BY <1>5 DEF TypeOK, ClearBlock
<1>6. ASSUME NEW t \in Tenants, NEW c \in BlockIDs, MarkExisting(t, c), c # b
      PROVE  Live(b)' /\ store'[b].recs = store[b].recs
  BY <1>2, <1>6 DEF MarkExisting
<1>7. ASSUME NEW c \in BlockIDs, CompactBlock(c), c # b
      PROVE  Live(b)' /\ store'[b].recs = store[b].recs
  BY <1>2, <1>7 DEF CompactBlock
<1>8. CASE StoreStep
  BY <1>3, <1>4, <1>5, <1>6, <1>7, <1>8 DEF StoreStep
<1> QED
  BY <1>1, <1>8, StoreSteps

LEMMA BelowStep ==
    ASSUME TypeOK, CurOK, FlushOK, Below, Next
    PROVE  Below'
<1>1. ASSUME NEW b \in BlockIDs, Compactable(b)', NEW o \in store'[b].recs
      PROVE  o < committed'[b.part]
  <2>0. b.part \in Parts /\ store[b].recs \subseteq Nat
    <3>1. b.part \in Parts
      BY DEF BlockIDs
    <3>2. store[b] \in BlockStates
      BY DEF TypeOK
    <3>3. store[b].recs \subseteq Offsets
      BY <3>2 DEF BlockStates
    <3> QED
      BY <3>1, <3>3, BoundsNat DEF Offsets
  <2>1. CASE Compactable(b) /\ store'[b] = store[b]
    <3>1. o \in Nat /\ o < committed[b.part]
      BY <1>1, <2>0, <2>1 DEF Below
    <3>2. /\ committed[b.part] <= committed'[b.part]
          /\ committed[b.part] \in Int /\ committed'[b.part] \in Int
      BY <2>0, CommitForward
    <3> QED
      BY <3>1, <3>2
  <2>2. ASSUME NEW t \in Tenants, AllowCompaction(t), b = FlushID(t, flush[t].seq),
               store'[b].recs = store[b].recs
        PROVE  o < committed'[b.part]
    <3>1. /\ pc = "allow" /\ flush[t].st = "done" /\ committed' = committed
          /\ b.part = cur.part
      BY <2>2 DEF AllowCompaction, kafkaVars, FlushID, BlockID
    <3>2. store[b].recs = SectionRecs(t, cur.part, cur.start, cur.next)
      <4>1. store[FlushID(t, flush[t].seq)] =
                [st |-> "live", noCompact |-> TRUE,
                 recs |-> SectionRecs(t, cur.part, cur.start, cur.next)]
        BY <3>1 DEF FlushOK, TenantFlushOK, InSection
      <4> QED
        BY <2>2, <4>1
    <3>3. o < cur.next
      BY <1>1, <2>2, <3>2, SectionFacts
    <3> QED
      BY <3>1, <3>3 DEF CurOK
  <2> QED
    BY <1>1, <2>1, <2>2, CompactableStep
<1>2. ASSUME NEW r \in archived'
      PROVE  r[2] < committed'[r[1]]
  <2>1. CASE r \in archived
    <3>1. r[1] \in Parts /\ r[2] \in Nat /\ r[2] < committed[r[1]]
      BY <2>1, BoundsNat DEF Below, TypeOK, Offsets
    <3>2. /\ committed[r[1]] <= committed'[r[1]]
          /\ committed[r[1]] \in Int /\ committed'[r[1]] \in Int
      BY <3>1, CommitForward
    <3> QED
      BY <3>1, <3>2
  <2>2. ASSUME NEW b \in BlockIDs, CompactBlock(b), r[1] = b.part, r[2] \in store[b].recs
        PROVE  r[2] < committed'[r[1]]
    BY <2>2 DEF CompactBlock, Below, kafkaVars
  <2> QED
    BY <1>2, <2>1, <2>2, ArchivedStep
<1> QED
  BY <1>1, <1>2 DEF Below

\* The steps of the consume cycle.
LEMMA CurStep ==
    ASSUME TypeOK, CurOK, PsOK, FlushOK, Next
    PROVE  CurOK'
<1> USE DEF CurOK, InSection
<1>1. CASE pc' \in {"idle", "cycle"}
  BY <1>1
<1>2. ASSUME NEW p \in Parts, NEW n \in 1 .. MaxRecords, ConsumeSection(p, n)
      PROVE  CurOK'
  <2>1. getStartOffset(ps[p].commit) = getStartOffset(committed[p])
    BY <1>2 DEF PsOK, ConsumeSection, MayConsume, commitOffsetAtEnd
  <2> QED
    BY <1>2, <2>1 DEF ConsumeSection, kafkaVars, getStartOffset
<1>3. CASE FlushEnds
  BY <1>3 DEF FlushEnds, kafkaVars, getStartOffset
<1>4. CASE CommitOffset
  BY <1>4 DEF CommitOffset, TypeOK
<1>5. CASE UNCHANGED <<pc, cur, committed>>
  BY <1>5 DEF getStartOffset
<1>6. CASE Builder
  BY <1>1, <1>2, <1>3, <1>4, <1>5, <1>6 DEF Builder, PartitionStep, TenantStep, BeginCycle, EndCycle,
     EndSection, NoData, FlushBegins, MarkExisting, WriteBlock, AllowCompaction, AllowFails, kafkaVars
<1>7. CASE Fail \/ CommitLost
  BY <1>1, <1>7 DEF Fail, CommitLost, Restart
<1>8. CASE Environment
  BY <1>5, <1>8 DEF Environment, Produce, CompactBlock, ClearBlock, builderVars, kafkaVars
<1> QED
  BY <1>6, <1>7, <1>8 DEF Next

LEMMA PsStep ==
    ASSUME TypeOK, CurOK, PsOK, CommitOK, Next
    PROVE  PsOK'
<1>1. CASE ps' = NoPartitions
  BY <1>1 DEF PsOK, NoPartitions, commitOffsetAtEnd
<1>2. CASE BeginCycle
  <2>1. ps' = fetchPartitions /\ committed' = committed
    BY <1>2 DEF BeginCycle, kafkaVars
  <2>2. ASSUME NEW p \in Parts
        PROVE  getStartOffset(ps'[p].commit) = getStartOffset(committed[p])
    BY <2>1, BoundsNat DEF fetchPartitions, TypeOK, CommitOK, getStartOffset, commitOffsetAtEnd
  <2> QED
    BY <2>1, <2>2 DEF PsOK, getStartOffset
<1>3. ASSUME NEW q \in Parts, NoData(q)
      PROVE  PsOK'
  BY <1>3 DEF NoData, PsOK, TypeOK, kafkaVars, commitOffsetAtEnd, getStartOffset
<1>4. CASE EndSection
  BY <1>4 DEF EndSection, PsOK, CurOK, TypeOK, kafkaVars, getStartOffset
<1>5. CASE CommitOffset
  BY <1>5 DEF CommitOffset, PsOK, TypeOK, getStartOffset
<1>6. CASE FlushEnds \/ \E p \in Parts, n \in 1 .. MaxRecords : ConsumeSection(p, n)
  BY <1>6 DEF FlushEnds, ConsumeSection, PsOK, kafkaVars, getStartOffset
<1>7. CASE UNCHANGED <<pc, cur, ps, committed>>
  BY <1>7 DEF PsOK, getStartOffset
<1>8. CASE Builder
  BY <1>1, <1>2, <1>3, <1>4, <1>5, <1>6, <1>7, <1>8 DEF Builder, PartitionStep, TenantStep, EndCycle,
     FlushBegins, MarkExisting, WriteBlock, AllowCompaction, AllowFails, kafkaVars
<1>9. CASE Fail \/ CommitLost
  BY <1>1, <1>9 DEF Fail, CommitLost, Restart
<1>10. CASE Environment
  BY <1>7, <1>10 DEF Environment, Produce, CompactBlock, ClearBlock, builderVars, kafkaVars
<1> QED
  BY <1>8, <1>9, <1>10 DEF Next

\* A block that was written stays as it is until its own flag is deleted.
LEMMA DoneStable ==
    ASSUME TypeOK, CurOK, FlushOK, Next, InSection, NEW t \in Tenants, flush[t].st = "done",
           ~AllowCompaction(t)
    PROVE  store'[FlushID(t, flush[t].seq)] = store[FlushID(t, flush[t].seq)]
<1> DEFINE w == FlushID(t, flush[t].seq)
<1>1. /\ w \in BlockIDs /\ w.tenant = t
      /\ store[w].st = "live" /\ store[w].noCompact
  <2>1. /\ flush[t].seq \in Seqs
        /\ store[w] = [st |-> "live", noCompact |-> TRUE,
                       recs |-> SectionRecs(t, cur.part, cur.start, cur.next)]
    BY DEF FlushOK, TenantFlushOK
  <2>2. w \in BlockIDs
    BY <2>1, FlushIDType
  <2>3. w.tenant = t
    BY DEF FlushID, BlockID
  <2> QED
    BY <2>1, <2>2, <2>3
<1> HIDE DEF w
<1>2. ASSUME NEW u \in Tenants, NEW b \in BlockIDs, MarkExisting(u, b)
      PROVE  store'[w] = store[w]
  <2>1. u # t /\ b.tenant = u
    BY <1>2 DEF MarkExisting, FlushOK, TenantFlushOK
  <2> QED
    BY <1>1, <1>2, <2>1 DEF MarkExisting, TypeOK
<1>3. ASSUME NEW u \in Tenants, u # t, WriteBlock(u) \/ AllowCompaction(u)
      PROVE  store'[w] = store[w]
  <2>1. FlushID(u, flush[u].seq) # w
    BY <1>1, <1>3 DEF FlushID, BlockID
  <2> QED
    BY <1>1, <1>3, <2>1 DEF WriteBlock, AllowCompaction, TypeOK
<1>4. ~WriteBlock(t)
  BY DEF WriteBlock
<1>5. ASSUME NEW b \in BlockIDs, CompactBlock(b) \/ ClearBlock(b)
      PROVE  store'[w] = store[w]
  <2>1. b # w
    BY <1>1, <1>5 DEF CompactBlock, ClearBlock, Compactable
  <2> QED
    BY <1>1, <1>5, <2>1 DEF CompactBlock, ClearBlock, TypeOK
<1>6. ASSUME StoreStep PROVE store'[w] = store[w]
  BY <1>2, <1>3, <1>4, <1>5, <1>6 DEF StoreStep
<1>7. store'[w] = store[w]
  BY <1>6, StoreSteps
<1> QED
  BY <1>7 DEF w

\* A tenant none of whose fields move, in a section that goes on.
LEMMA TenantKept ==
    ASSUME TypeOK, CurOK, FlushOK, Next, InSection, cur' = cur, NEW t \in Tenants,
           flush'[t] = flush[t], ~AllowCompaction(t),
           pc' = "flush" => flush'[t].st # "allowed",
           pc' = "commit" => flush'[t].st \in {"absent", "done"},
           pc' = "allow" => flush'[t].st \in {"absent", "done", "allowed"}
    PROVE  TenantFlushOK(t)'
<1>1. SectionRecs(t, cur.part, cur.start, cur.next)' = SectionRecs(t, cur.part, cur.start, cur.next)
  <2>1. cur.part \in Parts /\ cur.start \in Nat /\ cur.next \in Nat /\ cur.next <= Len(log[cur.part])
    BY BoundsNat DEF TypeOK
  <2>2. ASSUME NEW o \in cur.start .. cur.next - 1
        PROVE  log'[cur.part][o + 1] = log[cur.part][o + 1]
    <3>1. Len(log[cur.part]) \in Nat
      BY <2>1, LogGrows
    <3>2. o + 1 \in 1 .. Len(log[cur.part])
      BY <2>1, <3>1
    <3> QED
      BY <2>1, <3>2, LogGrows
  <2>3. SectionRecs(t, cur.part, cur.start, cur.next)' =
          {o \in cur.start .. cur.next - 1 : log'[cur.part][o + 1].tenant = t /\ log'[cur.part][o + 1].fits}
    BY DEF SectionRecs
  <2> QED
    BY <2>2, <2>3 DEF SectionRecs
<1>2. TenantFlushOK(t)
  BY DEF FlushOK
<1>3. flush[t].st = "done" => store'[FlushID(t, flush[t].seq)] = store[FlushID(t, flush[t].seq)]
  BY DoneStable
<1> QED
  BY <1>1, <1>2, <1>3 DEF TenantFlushOK, FlushID, BlockID

LEMMA FlushStep ==
    ASSUME TypeOK, CurOK, PsOK, FlushOK, Next
    PROVE  FlushOK'
<1>1. CASE pc' \in {"idle", "cycle"}
  BY <1>1 DEF FlushOK, InSection
<1>2. ASSUME NEW p \in Parts, NEW n \in 1 .. MaxRecords, ConsumeSection(p, n)
      PROVE  FlushOK'
  <2>1. ASSUME NEW t \in Tenants PROVE TenantFlushOK(t)'
    <3>1. log' = log /\ pc' = "flush" /\ cur' = [part |-> p, start |-> getStartOffset(ps[p].commit), next |-> n]
      BY <1>2 DEF ConsumeSection, kafkaVars
    <3>2. flush'[t] = IF SectionRecs(t, p, getStartOffset(ps[p].commit), n) = {} THEN NoFlush
                      ELSE StartFlush
      BY <1>2 DEF ConsumeSection
    <3>3. SectionRecs(t, cur.part, cur.start, cur.next)' = SectionRecs(t, p, getStartOffset(ps[p].commit), n)
      BY <3>1 DEF SectionRecs
    <3> QED
      BY <3>1, <3>2, <3>3 DEF TenantFlushOK, NoFlush, StartFlush
  <2> QED
    BY <2>1 DEF FlushOK
<1>3. CASE FlushEnds
  <2>1. /\ InSection /\ cur' = cur /\ flush' = flush /\ pc' = "commit" /\ pc = "flush"
        /\ \A t \in Tenants : flush[t].st \in {"absent", "done"}
    BY <1>3 DEF FlushEnds, InSection
  <2>2. \A t \in Tenants : ~AllowCompaction(t)
    BY <2>1 DEF AllowCompaction
  <2> QED
    BY <2>1, <2>2, TenantKept DEF FlushOK
<1>4. CASE CommitOffset
  <2>1. /\ InSection /\ cur' = cur /\ flush' = flush /\ pc' = "allow" /\ pc = "commit"
        /\ \A t \in Tenants : flush[t].st \in {"absent", "done"}
    BY <1>4 DEF CommitOffset, InSection, FlushOK, TenantFlushOK
  <2>2. \A t \in Tenants : ~AllowCompaction(t)
    BY <2>1 DEF AllowCompaction
  <2> QED
    BY <2>1, <2>2, TenantKept DEF FlushOK
<1>5. ASSUME UNCHANGED <<pc, cur, flush>>, \A t \in Tenants : ~AllowCompaction(t)
      PROVE  FlushOK'
  <2>1. ASSUME InSection, NEW t \in Tenants PROVE TenantFlushOK(t)'
    BY <1>5, <2>1, TenantKept DEF FlushOK, TenantFlushOK
  <2> QED
    BY <1>5, <2>1 DEF FlushOK, InSection
<1>6. ASSUME NEW u \in Tenants, TenantStep(u)
      PROVE  FlushOK'
  <2>1. /\ InSection /\ cur' = cur /\ pc' = pc
        /\ \A t \in Tenants \ {u} : flush'[t] = flush[t]
        /\ \A t \in Tenants \ {u} : ~AllowCompaction(t)
    <3>1. InSection /\ cur' = cur /\ pc' = pc
      BY <1>6 DEF TenantStep, FlushBegins, MarkExisting, WriteBlock, AllowCompaction, AllowFails, InSection
    <3>2. ASSUME NEW t \in Tenants \ {u} PROVE flush'[t] = flush[t]
      BY <1>6 DEF TypeOK, TenantStep, FlushBegins, MarkExisting, WriteBlock, AllowCompaction, AllowFails
    <3>3. ASSUME NEW t \in Tenants \ {u}, AllowCompaction(t) PROVE FALSE
      <4>1. flush'[t].st = "allowed" /\ flush[t].st = "done"
        BY <3>3 DEF AllowCompaction, TypeOK, FlushStates
      <4> QED
        BY <3>2, <4>1
    <3> QED
      BY <3>1, <3>2, <3>3
  <2>2. ASSUME NEW t \in Tenants \ {u} PROVE TenantFlushOK(t)'
    BY <2>1, <2>2, TenantKept DEF FlushOK, TenantFlushOK
  <2>3. TenantFlushOK(u)'
    <3>1. ASSUME NEW n \in Seqs, FlushBegins(u, n)
          PROVE  TenantFlushOK(u)'
      <4>1. \A b \in ExistingBlocks(u, n) : b.tenant = u /\ b.part = cur.part /\ b.start = cur.start
        <5>1. ASSUME NEW b \in ExistingBlocks(u, n)
              PROVE  \E m \in 1 .. n - 1 : b = FlushID(u, m)
          BY <5>1 DEF ExistingBlocks
        <5> QED
          BY <5>1 DEF FlushID, BlockID
      <4>2. /\ flush'[u] = [st |-> "mark", seq |-> n, old |-> ExistingBlocks(u, n)]
            /\ pc' = "flush"
        BY <3>1 DEF FlushBegins, TypeOK
      <4> QED
        BY <2>1, <4>1, <4>2 DEF TenantFlushOK
    <3>2. ASSUME NEW b \in BlockIDs, MarkExisting(u, b)
          PROVE  TenantFlushOK(u)'
      <4>1. /\ flush'[u].st = "mark" /\ flush'[u].seq = flush[u].seq
            /\ flush'[u].old \subseteq flush[u].old /\ pc' = "flush" /\ flush[u].st = "mark"
        BY <3>2 DEF MarkExisting, TypeOK, FlushStates
      <4>2. TenantFlushOK(u)
        BY <2>1 DEF FlushOK
      <4> QED
        BY <2>1, <4>1, <4>2 DEF TenantFlushOK
    <3>3. ASSUME WriteBlock(u)
          PROVE  TenantFlushOK(u)'
      <4>1. flush[u].st = "mark" /\ flush[u].seq \in Seqs
        BY <2>1, <3>3 DEF FlushOK, TenantFlushOK, WriteBlock
      <4>2. FlushID(u, flush[u].seq) \in BlockIDs
        BY <2>1, <4>1, FlushIDType
      <4>3. /\ flush'[u].st = "done" /\ flush'[u].seq = flush[u].seq /\ pc' = "flush" /\ log' = log
        BY <3>3 DEF WriteBlock, TypeOK, FlushStates, kafkaVars
      <4>4. store'[FlushID(u, flush[u].seq)] =
                [st |-> "live", noCompact |-> TRUE,
                 recs |-> SectionRecs(u, cur.part, cur.start, cur.next)]
        BY <3>3, <4>2 DEF WriteBlock, TypeOK
      <4>5. /\ SectionRecs(u, cur.part, cur.start, cur.next)' = SectionRecs(u, cur.part, cur.start, cur.next)
            /\ FlushID(u, flush[u].seq)' = FlushID(u, flush[u].seq)
        BY <2>1, <4>3 DEF SectionRecs, FlushID, BlockID
      <4> QED
        BY <4>1, <4>3, <4>4, <4>5 DEF TenantFlushOK
    <3>4. ASSUME AllowCompaction(u) \/ AllowFails(u)
          PROVE  TenantFlushOK(u)'
      <4>1. flush'[u].st = "allowed" /\ pc' = "allow"
        BY <3>4 DEF AllowCompaction, AllowFails, TypeOK, FlushStates
      <4> QED
        BY <4>1 DEF TenantFlushOK
    <3> QED
      BY <1>6, <3>1, <3>2, <3>3, <3>4 DEF TenantStep
  <2> QED
    BY <2>1, <2>2, <2>3 DEF FlushOK, InSection
<1>7. CASE Builder
  BY <1>1, <1>2, <1>3, <1>4, <1>6, <1>7 DEF Builder, PartitionStep, BeginCycle, EndCycle,
     EndSection, NoData
<1>8. CASE Fail \/ CommitLost
  BY <1>1, <1>8 DEF Fail, CommitLost, Restart
<1>9. CASE Environment
  <2>1. UNCHANGED <<pc, cur, flush>>
    BY <1>9 DEF Environment, Produce, CompactBlock, ClearBlock, builderVars
  <2>2. ASSUME NEW t \in Tenants, AllowCompaction(t) PROVE FALSE
    BY <2>1, <2>2 DEF AllowCompaction, TypeOK, FlushStates
  <2> QED
    BY <1>5, <2>1, <2>2
<1> QED
  BY <1>7, <1>8, <1>9 DEF Next

\* While blocks are being released: AllowOK.
LEMMA AllowStep ==
    ASSUME TypeOK, CurOK, FlushOK, CommitOK, Below, BlocksOK, AllowOK, Next
    PROVE  AllowOK'
<1> SUFFICES ASSUME pc' = "allow", NEW t \in Tenants, flush'[t].st = "done"
             PROVE  /\ \A b \in BlockIDs : (Compactable(b)' /\ b.part = cur'.part /\ b.tenant = t) =>
                          \A o \in store'[b].recs : o < cur'.start
                    /\ \A r \in archived' :
                          (r[1] = cur'.part /\ log'[r[1]][r[2] + 1].tenant = t) => r[2] < cur'.start
  BY DEF AllowOK, Compactable, Live
<1>1. CASE CommitOffset
  <2>1. /\ store' = store /\ archived' = archived /\ cur' = cur /\ log' = log
        /\ cur.start = getStartOffset(committed[cur.part])
    BY <1>1 DEF CommitOffset, storeVars, CurOK
  <2>2. cur.part \in Parts /\ committed[cur.part] \in Int
    BY CommitForward DEF TypeOK
  <2>3. \A x \in Nat : x < committed[cur.part] => x < cur.start
    BY <2>1, <2>2 DEF getStartOffset, commitOffsetAtEnd
  <2>4. \A b \in BlockIDs : store[b].recs \subseteq Nat
    BY BoundsNat DEF TypeOK, BlockStates, Offsets
  <2>5. \A r \in archived : r[2] \in Nat
    BY BoundsNat DEF TypeOK, Offsets
  <2> QED
    BY <2>1, <2>3, <2>4, <2>5 DEF Below, Compactable, Live
<1>2. ASSUME pc = "allow", cur' = cur, flush[t].st = "done", ~AllowCompaction(t)
      PROVE  /\ \A b \in BlockIDs : (Compactable(b)' /\ b.part = cur'.part /\ b.tenant = t) =>
                   \A o \in store'[b].recs : o < cur'.start
             /\ \A r \in archived' :
                   (r[1] = cur'.part /\ log'[r[1]][r[2] + 1].tenant = t) => r[2] < cur'.start
  <2>1. ASSUME NEW b \in BlockIDs, Compactable(b)', b.part = cur'.part, b.tenant = t,
               NEW o \in store'[b].recs
        PROVE  o < cur'.start
    <3>1. CASE Compactable(b) /\ store'[b] = store[b]
      BY <1>2, <2>1, <3>1 DEF AllowOK
    <3>2. ASSUME NEW u \in Tenants, AllowCompaction(u), b = FlushID(u, flush[u].seq)
          PROVE  FALSE
      <4>1. u = t
        BY <2>1, <3>2 DEF FlushID, BlockID
      <4> QED
        BY <1>2, <3>2, <4>1
    <3> QED
      BY <2>1, <3>1, <3>2, CompactableStep
  <2>2. ASSUME NEW r \in archived', r[1] = cur'.part, log'[r[1]][r[2] + 1].tenant = t
        PROVE  r[2] < cur'.start
    <3>1. CASE r \in archived
      <4>0. r[1] \in Parts /\ r[2] \in Nat
        BY <3>1, BoundsNat DEF TypeOK, Offsets
      <4>1. r[2] + 1 \in 1 .. Len(log[r[1]])
        BY <3>1, <4>0, CommitForward, LogGrows DEF Below, CommitOK
      <4>2. log'[r[1]][r[2] + 1] = log[r[1]][r[2] + 1]
        BY <4>0, <4>1, LogGrows
      <4> QED
        BY <1>2, <2>2, <3>1, <4>2 DEF AllowOK
    <3>2. ASSUME NEW b \in BlockIDs, CompactBlock(b), r[1] = b.part, r[2] \in store[b].recs
          PROVE  r[2] < cur'.start
      <4>1. log' = log /\ Compactable(b)
        BY <3>2 DEF CompactBlock, kafkaVars
      <4>2. b.tenant = t
        BY <2>2, <3>2, <4>1 DEF BlocksOK
      <4> QED
        BY <1>2, <2>2, <3>2, <4>1, <4>2 DEF AllowOK
    <3> QED
      BY <2>2, <3>1, <3>2, ArchivedStep
  <2> QED
    BY <2>1, <2>2
<1>3. ASSUME NEW u \in Tenants, TenantStep(u)
      PROVE  pc = "allow" /\ cur' = cur /\ flush[t].st = "done" /\ ~AllowCompaction(t)
  <2>1. pc = "allow" /\ cur' = cur /\ (AllowCompaction(u) \/ AllowFails(u))
    BY <1>3 DEF TenantStep, FlushBegins, MarkExisting, WriteBlock, AllowCompaction, AllowFails
  <2>2. flush'[u].st = "allowed" /\ \A x \in Tenants \ {u} : flush'[x] = flush[x]
    BY <2>1 DEF AllowCompaction, AllowFails, TypeOK, FlushStates
  <2>3. ~AllowCompaction(t)
    BY DEF AllowCompaction, TypeOK, FlushStates
  <2> QED
    BY <2>1, <2>2, <2>3
<1>4. CASE Environment
  <2>1. UNCHANGED <<pc, cur, flush>>
    BY <1>4 DEF Environment, Produce, CompactBlock, ClearBlock, builderVars
  <2>2. ~AllowCompaction(t)
    BY DEF AllowCompaction, TypeOK, FlushStates
  <2> QED
    BY <1>2, <2>1, <2>2
<1>5. CASE Builder
  BY <1>1, <1>2, <1>3, <1>5 DEF Builder, PartitionStep, BeginCycle, EndCycle, FlushEnds, EndSection,
     NoData, ConsumeSection
<1>6. CASE Fail \/ CommitLost
  BY <1>6 DEF Fail, CommitLost, Restart
<1> QED
  BY <1>4, <1>5, <1>6 DEF Next

LEMMA OnceStep ==
    ASSUME TypeOK, CurOK, FlushOK, BlocksOK, AllowOK, ReleasedOnce, Next
    PROVE  ReleasedOnce'
<1> SUFFICES ASSUME NEW b \in BlockIDs, Compactable(b)', NEW o \in store'[b].recs
             PROVE  /\ <<b.part, o>> \notin archived'
                    /\ \A c \in BlockIDs \ {b} : Compactable(c)' => ~(c.part = b.part /\ o \in store'[c].recs)
  BY DEF ReleasedOnce, Holds, Compactable, Live
\* A block whose flag has just been deleted holds what nobody else has.
<1>1. ASSUME NEW t \in Tenants, AllowCompaction(t), NEW w \in BlockIDs, w = FlushID(t, flush[t].seq),
             NEW x \in store[w].recs
      PROVE  /\ <<w.part, x>> \notin archived
             /\ \A c \in BlockIDs : Compactable(c) => ~(c.part = w.part /\ x \in store[c].recs)
  <2>1. /\ pc = "allow" /\ flush[t].st = "done" /\ w.part = cur.part /\ InSection
    BY <1>1 DEF AllowCompaction, FlushID, BlockID, InSection
  <2>2. store[FlushID(t, flush[t].seq)] =
                [st |-> "live", noCompact |-> TRUE,
                 recs |-> SectionRecs(t, cur.part, cur.start, cur.next)]
    BY <2>1 DEF FlushOK, TenantFlushOK
  <2>3. x \in SectionRecs(t, cur.part, cur.start, cur.next)
    BY <1>1, <2>2
  <2>4. x \in Nat /\ cur.start \in Nat /\ ~(x < cur.start) /\ log[cur.part][x + 1].tenant = t
    BY <2>3, SectionFacts, BoundsNat DEF TypeOK
  <2>5. <<w.part, x>> \notin archived
    BY <2>1, <2>4 DEF AllowOK
  <2>6. ASSUME NEW c \in BlockIDs, Compactable(c), c.part = w.part, x \in store[c].recs
        PROVE  FALSE
    <3>1. c.tenant = t
      BY <2>1, <2>4, <2>6 DEF BlocksOK
    <3> QED
      BY <2>1, <2>4, <2>6, <3>1 DEF AllowOK
  <2> QED
    BY <2>5, <2>6
<1>2. ASSUME NEW t \in Tenants, AllowCompaction(t)
      PROVE  archived' = archived /\ \A u \in Tenants : AllowCompaction(u) => u = t
  <2>1. ASSUME NEW u \in Tenants, AllowCompaction(u), u # t PROVE FALSE
    <3>1. flush'[u].st = "allowed" /\ flush[u].st = "done"
      BY <2>1 DEF AllowCompaction, TypeOK, FlushStates
    <3>2. flush'[u] = flush[u]
      BY <1>2, <2>1 DEF AllowCompaction, TypeOK
    <3> QED
      BY <3>1, <3>2
  <2> QED
    BY <1>2, <2>1 DEF AllowCompaction
<1>3. ASSUME NEW t \in Tenants, AllowCompaction(t)
      PROVE  /\ <<b.part, o>> \notin archived'
             /\ \A c \in BlockIDs \ {b} : Compactable(c)' => ~(c.part = b.part /\ o \in store'[c].recs)
  <2> DEFINE w == FlushID(t, flush[t].seq)
  <2>1. \A c \in BlockIDs : Compactable(c)' => /\ Compactable(c) \/ c = w
                                              /\ store'[c].recs = store[c].recs
    BY <1>2, <1>3, CompactableStep
  <2>2. CASE b = w
    BY <1>1, <1>2, <1>3, <2>1, <2>2
  <2>3. CASE b # w
    <3>1. Compactable(b) /\ o \in store[b].recs
      BY <2>1, <2>3
    <3>2. <<b.part, o>> \notin archived'
      BY <1>2, <1>3, <3>1 DEF ReleasedOnce
    <3>3. ASSUME NEW c \in BlockIDs \ {b}, Compactable(c)', c.part = b.part, o \in store'[c].recs
          PROVE  FALSE
      <4>1. CASE c = w
        BY <1>1, <1>3, <2>1, <3>1, <3>3, <4>1
      <4>2. CASE c # w
        BY <2>1, <3>1, <3>3, <4>2 DEF ReleasedOnce, Holds
      <4> QED
        BY <4>1, <4>2
    <3> QED
      BY <3>2, <3>3
  <2> QED
    BY <2>2, <2>3
<1>4. ASSUME \A t \in Tenants : ~AllowCompaction(t)
      PROVE  /\ <<b.part, o>> \notin archived'
             /\ \A c \in BlockIDs \ {b} : Compactable(c)' => ~(c.part = b.part /\ o \in store'[c].recs)
  <2>1. \A c \in BlockIDs : Compactable(c)' => Compactable(c) /\ store'[c] = store[c]
    BY <1>4, CompactableStep
  <2>2. \A c \in BlockIDs \ {b} : Compactable(c)' => ~(c.part = b.part /\ o \in store'[c].recs)
    BY <2>1 DEF ReleasedOnce, Holds
  <2>3. <<b.part, o>> \notin archived
    BY <2>1 DEF ReleasedOnce
  <2>4. ASSUME NEW c \in BlockIDs, CompactBlock(c), c.part = b.part, o \in store[c].recs
        PROVE  FALSE
    <3>1. Compactable(c) /\ ~Compactable(c)'
      BY <2>4 DEF CompactBlock, Compactable, Live, TypeOK, BlockStates
    <3>2. c # b
      BY <3>1
    <3> QED
      BY <2>1, <2>4, <3>1, <3>2 DEF ReleasedOnce, Holds
  <2>5. <<b.part, o>> \notin archived'
    BY <2>3, <2>4, ArchivedStep
  <2> QED
    BY <2>2, <2>5
<1> QED
  BY <1>3, <1>4

\* A committed record keeps a live block of its tenant.
LEMMA DurableStep ==
    ASSUME TypeOK, CurOK, FlushOK, CommitOK, BlocksOK, Durable, Next
    PROVE  Durable'
<1> SUFFICES ASSUME NEW p \in Parts, NEW o \in Offsets, o < committed'[p], log'[p][o + 1].fits
             PROVE  \/ <<p, o>> \in archived'
                    \/ \E b \in BlockIDs : /\ store'[b].st = "live" /\ b.tenant = log'[p][o + 1].tenant
                                           /\ b.part = p /\ o \in store'[b].recs
  BY DEF Durable, Live, Holds
<1>0. o \in Nat
  BY BoundsNat DEF Offsets
\* The record was committed before: its holder is not touched by a retry.
<1>1. CASE o < committed[p]
  <2>1. log'[p][o + 1] = log[p][o + 1]
    BY <1>0, <1>1, LogGrows, CommitForward DEF CommitOK
  <2>2. CASE <<p, o>> \in archived
    BY <2>2, ArchivedStep
  <2>3. ASSUME NEW b \in BlockIDs, Live(b), b.tenant = log[p][o + 1].tenant, b.part = p, o \in store[b].recs
        PROVE  \/ <<p, o>> \in archived'
               \/ store'[b].st = "live" /\ o \in store'[b].recs
    <3>1. ASSUME pc = "flush", b.start = cur.start, b.part = cur.part PROVE FALSE
      <4>1. b.start <= o /\ cur.start = getStartOffset(committed[p])
        BY <2>3, <3>1 DEF BlocksOK, CurOK
      <4>2. cur.start = committed[p] /\ committed[p] \in Int
        BY <1>0, <1>1, <4>1, CommitForward DEF getStartOffset, commitOffsetAtEnd
      <4> QED
        BY <1>0, <1>1, <3>1, <4>1, <4>2
    <3>2. ASSUME NEW t \in Tenants, MarkExisting(t, b) PROVE FALSE
      BY <3>1, <3>2 DEF MarkExisting, FlushOK, TenantFlushOK, InSection
    <3>3. ASSUME NEW t \in Tenants, WriteBlock(t), b = FlushID(t, flush[t].seq) PROVE FALSE
      BY <3>1, <3>3 DEF WriteBlock, FlushID, BlockID
    <3>4. CASE CompactBlock(b)
      BY <2>3, <3>4 DEF CompactBlock
    <3> QED
      BY <2>3, <3>2, <3>3, <3>4, LiveStep DEF Live
  <2> QED
    BY <1>1, <2>1, <2>2, <2>3 DEF Durable, Holds
\* The record is committed by this step: its tenant's block has just been written.
<1>2. CASE ~(o < committed[p])
  <2>1. CommitStep /\ p = cur.part /\ committed'[p] = cur.next /\ pc = "commit" /\ InSection
    <3>1. CommitStep
      BY <1>2, CommitSteps
    <3>2. p = cur.part
      BY <1>2, CommitForward
    <3> QED
      BY <3>1, <3>2 DEF CommitStep, CommitOffset, CommitLost, TypeOK, InSection
  <2>2. log' = log /\ store' = store
    BY <2>1 DEF CommitStep, CommitOffset, CommitLost, Restart, storeVars
  <2>3. cur.start = getStartOffset(committed[p]) /\ cur.start \in Nat /\ cur.next \in Nat
        /\ committed[p] \in Int /\ cur.next <= Len(log[p]) /\ Len(log[p]) \in Nat
    BY <2>1, BoundsNat, CommitForward, LogGrows DEF CurOK, TypeOK
  <2>4. o \in cur.start .. cur.next - 1
    BY <1>0, <1>2, <2>1, <2>3 DEF getStartOffset, commitOffsetAtEnd
  <2>5. log[p][o + 1] \in Records
    BY <2>3, <2>4 DEF TypeOK
  <2>6. PICK t \in Tenants : t = log[p][o + 1].tenant
    BY <2>5 DEF Records
  <2>7. o \in SectionRecs(t, cur.part, cur.start, cur.next)
    BY <2>1, <2>2, <2>4, <2>6 DEF SectionRecs
  <2>8. /\ flush[t].st = "done" /\ flush[t].seq \in Seqs
        /\ store[FlushID(t, flush[t].seq)] =
                [st |-> "live", noCompact |-> TRUE,
                 recs |-> SectionRecs(t, cur.part, cur.start, cur.next)]
    BY <2>1, <2>7 DEF FlushOK, TenantFlushOK
  <2>9. PICK w \in BlockIDs : w = FlushID(t, flush[t].seq)
    BY <2>1, <2>8, FlushIDType
  <2>10. w.tenant = t /\ w.part = p
    BY <2>1, <2>9 DEF FlushID, BlockID
  <2> QED
    BY <2>2, <2>6, <2>7, <2>8, <2>9, <2>10
<1> QED
  BY <1>1, <1>2

-----------------------------------------------------------------------------
(* The inductive invariant and the theorems.                               *)

BuilderInv == /\ TypeOK /\ BlocksOK /\ CommitOK /\ Below /\ PsOK /\ CurOK
              /\ FlushOK /\ AllowOK /\ Durable /\ ReleasedOnce

LEMMA BuilderInit == Init => BuilderInv
<1> SUFFICES ASSUME Init PROVE BuilderInv
  OBVIOUS
<1>1. TypeOK
  BY TypeInit
<1>2. /\ \A b \in BlockIDs : store[b].recs = {} /\ ~Live(b)
      /\ archived = {} /\ pc = "idle"
      /\ \A p \in Parts : committed[p] = -1 /\ Len(log[p]) = 0
      /\ \A p \in Parts : ps[p].commit = -1 /\ ~ps[p].first
  BY DEF Init, NoBlock, Live, NoPartitions, commitOffsetAtEnd
<1>3. BlocksOK /\ CommitOK /\ Below /\ PsOK /\ CurOK /\ FlushOK /\ AllowOK
  BY <1>2 DEF BlocksOK, CommitOK, Below, PsOK, CurOK, FlushOK, AllowOK, Compactable, InSection
<1>4. Durable /\ ReleasedOnce
  BY <1>2, BoundsNat DEF Durable, ReleasedOnce, Compactable, Offsets
<1> QED
  BY <1>1, <1>3, <1>4 DEF BuilderInv

LEMMA BuilderStutter ==
    ASSUME BuilderInv, UNCHANGED vars
    PROVE  BuilderInv'
<1> USE DEF BuilderInv, vars
<1>1. TypeOK' /\ BlocksOK' /\ CommitOK' /\ PsOK' /\ CurOK'
  BY DEF TypeOK, BlocksOK, CommitOK, PsOK, CurOK, InSection, getStartOffset
<1>2. Below' /\ AllowOK'
  BY DEF Below, AllowOK, Compactable, Live
<1>3. FlushOK'
  BY DEF FlushOK, TenantFlushOK, InSection, SectionRecs, FlushID, BlockID
<1>4. Durable' /\ ReleasedOnce'
  BY DEF Durable, ReleasedOnce, Compactable, Live, Holds
<1> QED
  BY <1>1, <1>2, <1>3, <1>4

LEMMA BuilderStep == BuilderInv /\ [Next]_vars => BuilderInv'
<1>1. ASSUME BuilderInv, Next PROVE BuilderInv'
  BY <1>1, TypeStep, BlocksStep, CommitInLog, BelowStep, PsStep, CurStep, FlushStep, AllowStep,
     DurableStep, OnceStep DEF BuilderInv
<1> QED
  BY <1>1, BuilderStutter

LEMMA BuilderInvariant == Spec => []BuilderInv
BY BuilderInit, BuilderStep, PTL DEF Spec

\* The block-builder's variables keep their types and its section its log.
THEOREM BuilderTypeOK == Spec => []TypeOK
<1>1. BuilderInv => TypeOK
  BY DEF BuilderInv
<1> QED
  BY <1>1, BuilderInvariant, PTL

\* consumePartition loses no record it commits: whatever crashes and retries
\* came before, a committed record is in a live block of its tenant or was
\* rewritten by compaction.
THEOREM BuilderDurable == Spec => []Durable
<1>1. BuilderInv => Durable
  BY DEF BuilderInv
<1> QED
  BY <1>1, BuilderInvariant, PTL

\* The nocompact protocol of tenantStore hands a record to compaction once.
THEOREM BuilderReleasedOnce == Spec => []ReleasedOnce
<1>1. BuilderInv => ReleasedOnce
  BY DEF BuilderInv
<1> QED
  BY <1>1, BuilderInvariant, PTL

-----------------------------------------------------------------------------
(* The block-builder implements SectionRelease.                            *)

Done == [p \in Parts |-> getStartOffset(committed[p])]
Released == archived \cup {r \in Parts \X Offsets :
                              \E b \in BlockIDs : Compactable(b) /\ Holds(b, r[1], r[2])}

\* Nothing released is taken back: a compactable block is neither marked nor
\* overwritten by a retry, and what compaction rewrites stays archived.
LEMMA ReleasedGrows ==
    ASSUME BuilderInv, Next
    PROVE  Released \subseteq Released'
<1> USE DEF BuilderInv
<1>1. archived \subseteq Released'
  BY ArchivedStep DEF Released
<1>2. ASSUME NEW p \in Parts, NEW o \in Offsets, NEW b \in BlockIDs, Compactable(b), b.part = p,
             o \in store[b].recs
      PROVE  <<p, o>> \in Released'
  <2>1. o \in Nat /\ b.start <= o /\ o < committed[p] /\ committed[p] \in Int
    BY <1>2, BoundsNat, CommitForward DEF BlocksOK, Below, Offsets
  <2>2. ASSUME pc = "flush", b.start = cur.start, b.part = cur.part PROVE FALSE
    <3>1. cur.start = committed[p]
      BY <1>2, <2>1, <2>2 DEF CurOK, getStartOffset, commitOffsetAtEnd
    <3> QED
      BY <2>1, <2>2, <3>1
  <2>3. ASSUME NEW t \in Tenants, MarkExisting(t, b) PROVE FALSE
    BY <2>2, <2>3 DEF MarkExisting, FlushOK, TenantFlushOK, InSection
  <2>4. ASSUME NEW t \in Tenants, WriteBlock(t), b = FlushID(t, flush[t].seq) PROVE FALSE
    BY <2>2, <2>4 DEF WriteBlock, FlushID, BlockID
  <2>5. CASE CompactBlock(b)
    BY <1>2, <2>5 DEF CompactBlock, Released
  <2>6. ASSUME Live(b)', store'[b].recs = store[b].recs, ~CompactBlock(b)
        PROVE  Compactable(b)'
    <3>1. store[b] \in BlockStates /\ ~store[b].noCompact
      BY <1>2 DEF TypeOK, Compactable
    <3>2. store'[b].noCompact = store[b].noCompact
      <4>1. CASE UNCHANGED store
        BY <4>1
      <4>2. ASSUME NEW c \in BlockIDs, store' = [store EXCEPT ![c].st = "compacted"]
            PROVE  store'[b].noCompact = store[b].noCompact
        BY <4>2 DEF TypeOK, BlockStates
      <4>3. ASSUME NEW t \in Tenants, WriteBlock(t)
            PROVE  store'[b].noCompact = store[b].noCompact
        BY <2>4, <4>3 DEF WriteBlock, TypeOK
      <4>4. ASSUME NEW t \in Tenants, AllowCompaction(t)
            PROVE  store'[b].noCompact = store[b].noCompact
        <5>1. store' = [store EXCEPT ![FlushID(t, flush[t].seq)].noCompact = FALSE]
          BY <4>4 DEF AllowCompaction
        <5> QED
          BY <3>1, <5>1 DEF TypeOK, BlockStates
      <4>5. ASSUME NEW c \in BlockIDs, ClearBlock(c)
            PROVE  store'[b].noCompact = store[b].noCompact
        BY <1>2, <4>5 DEF ClearBlock, TypeOK, Compactable, Live
      <4> QED
        BY <4>1, <4>2, <4>3, <4>4, <4>5, StoreSteps DEF StoreStep, MarkExisting, CompactBlock
    <3> QED
      BY <2>6, <3>1, <3>2 DEF Compactable, Live
  <2>7. CASE Live(b)' /\ store'[b].recs = store[b].recs /\ ~CompactBlock(b)
    BY <1>2, <2>6, <2>7 DEF Released, Holds
  <2> QED
    BY <1>2, <2>3, <2>4, <2>5, <2>7, LiveStep DEF Compactable
<1>3. ASSUME NEW r \in Parts \X Offsets, NEW b \in BlockIDs, Compactable(b), Holds(b, r[1], r[2])
      PROVE  r \in Released'
  BY <1>2, <1>3 DEF Holds
<1> QED
  BY <1>1, <1>3 DEF Released

\* Everything released lies below the committed offset.
AllBelow == \A r \in Released : r[2] < Done[r[1]]

LEMMA ReleasedBelow == BuilderInv => AllBelow
<1> SUFFICES ASSUME BuilderInv PROVE \A r \in Released : r[2] < Done[r[1]]
  BY DEF AllBelow
<1> USE DEF BuilderInv
<1>1. ASSUME NEW r \in Released PROVE r \in Parts \X Offsets /\ r[2] < committed[r[1]]
  BY <1>1 DEF Released, Below, TypeOK, Holds
<1>2. \A p \in Parts : committed[p] \in Int /\ Done[p] = getStartOffset(committed[p])
  BY BoundsNat DEF TypeOK, Done
<1> QED
  BY <1>1, <1>2, BoundsNat DEF getStartOffset, commitOffsetAtEnd, Offsets

LEMMA ReleaseInit == Init => Rel!RelInit
BY DEF Init, Rel!RelInit, NoBlock, Compactable, Live, getStartOffset, commitOffsetAtEnd

LEMMA ReleaseStep ==
    ASSUME BuilderInv, BuilderInv', [Next]_vars
    PROVE  [Rel!RelNext]_<<Done, Released>>
<1>1. CASE UNCHANGED vars
  BY <1>1 DEF vars, Done, Released, Compactable, Live, Holds, getStartOffset
<1>2. ASSUME Next, UNCHANGED committed
      PROVE  Rel!RelNext
  <2>1. Released \subseteq Released' /\ Done' = Done
    BY <1>2, ReleasedGrows DEF Done, getStartOffset
  <2>2. \A r \in Released' : r[2] < Done[r[1]]
    <3>1. AllBelow'
      BY ReleasedBelow, PTL
    <3> QED
      BY <2>1, <3>1 DEF AllBelow
  <2> QED
    BY <2>1, <2>2 DEF Rel!RelNext, Rel!Release, Done, Released
<1>3. ASSUME Next, CommitStep
      PROVE  Rel!RelNext
  <2>1. store' = store /\ archived' = archived
    BY <1>3 DEF CommitStep, CommitOffset, CommitLost, Restart, storeVars
  <2>2. Released' = Released
    BY <2>1 DEF Released, Compactable, Live, Holds
  <2>3. /\ cur.part \in Parts /\ cur.start < cur.next /\ cur.start = Done[cur.part]
        /\ cur.next \in Nat /\ cur.start \in Nat
    BY <1>3, BoundsNat DEF BuilderInv, TypeOK, CurOK, InSection, CommitStep, CommitOffset, CommitLost, Done
  <2>4. Done' = [Done EXCEPT ![cur.part] = cur.next]
    <3>1. committed' = [committed EXCEPT ![cur.part] = cur.next]
      BY <1>3 DEF CommitStep, CommitOffset, CommitLost
    <3>2. committed \in [Parts -> Int]
      BY BoundsNat DEF BuilderInv, TypeOK
    <3>3. \A p \in Parts : getStartOffset(committed'[p]) =
                            IF p = cur.part THEN cur.next ELSE getStartOffset(committed[p])
      BY <2>3, <3>1, <3>2 DEF getStartOffset, commitOffsetAtEnd
    <3> QED
      BY <2>3, <3>3 DEF Done, getStartOffset
  <2>5. Done'[cur.part] = cur.next
    BY <2>3, <2>4 DEF Done
  <2> QED
    BY <2>2, <2>3, <2>4, <2>5 DEF Rel!RelNext, Rel!Advance, Done, Released
<1> QED
  BY <1>1, <1>2, <1>3, CommitSteps

\* Crashes, retries and lost answers included, the block-builder moves the
\* consumer group forward only, and hands records to compaction only below
\* the committed offset and for good.
THEOREM BuilderImplementsRelease == Spec => ReleaseSpec
<1>1. BuilderInv /\ BuilderInv' /\ [Next]_vars => [Rel!RelNext]_Rel!relVars
  BY ReleaseStep DEF Rel!relVars, Done, Released
<1> QED
  BY <1>1, ReleaseInit, BuilderInvariant, PTL DEF Spec, ReleaseSpec, Rel!RelSpec
=============================================================================
