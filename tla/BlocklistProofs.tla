-------------------------- MODULE BlocklistProofs --------------------------
(***************************************************************************)
(* TypeOK, NoRevival and NothingHidden of Blocklist for any blocks, any    *)
(* number of workers and of faults.                                        *)
(***************************************************************************)
EXTENDS Blocklist, TLAPS

(***************************************************************************)
(* The inductive invariant.  KnownBlocks: a list, a poll or an index only  *)
(* names blocks that have been written, so what a job takes away from a    *)
(* list it has found in the store.  JobOK: while a job marks its inputs    *)
(* its output is live and is none of them.  TakenOK is NoRevival with what *)
(* the poll under way and the kept changes can still bring back.           *)
(***************************************************************************)
Written == {b \in Blocks : store[b] # "none"}

KnownBlocks == /\ \A p \in Procs : /\ metas[p] \subseteq Written
                                   /\ poll[p].metas \subseteq Written
                                   /\ pending[p].add \subseteq Written
               /\ index.metas \subseteq Written

JobOK == job.pc = "mark" => /\ job.by \in Workers
                            /\ job.ins \subseteq Written
                            /\ job.todo \subseteq job.ins
                            /\ job.out # NoBlock => /\ store[job.out] = "live"
                                                    /\ job.out \notin job.ins

TakenOK == \A w \in Workers : \A b \in taken[w] :
             /\ store[b] \in {"compacted", "gone"}
             /\ b \notin metas[w]
             /\ b \in poll[w].metas => b \in pending[w].remove
             /\ b \in pending[w].add => b \in pending[w].remove

BlocklistInv == TypeOK /\ KnownBlocks /\ JobOK /\ TakenOK

(***************************************************************************)
(* Init starts with an empty store and empty lists.                        *)
(***************************************************************************)
LEMMA InvInit == Init => BlocklistInv
<1> SUFFICES ASSUME Init PROVE BlocklistInv
    OBVIOUS
<1> USE BlocklistAssumption DEF Init, Procs, NoChange, NoPoll, NoIndex, NoJob
<1>1. TypeOK BY DEF TypeOK, Changes
<1>2. KnownBlocks BY DEF KnownBlocks
<1>3. JobOK BY DEF JobOK
<1>4. TakenOK BY DEF TakenOK
<1> QED BY <1>1, <1>2, <1>3, <1>4 DEF BlocklistInv

(***************************************************************************)
(* List.Update keeps the types.                                            *)
(***************************************************************************)
LEMMA UpdateType ==
    ASSUME TypeOK, NEW p \in Procs, NEW u \in Changes, Update(p, u)
    PROVE  /\ metas' \in [Procs -> SUBSET Blocks]
           /\ compacted' \in [Procs -> SUBSET Blocks]
           /\ pending' \in [Procs -> Changes]
<1>1. UpdatedMetas(metas[p], u) \in SUBSET Blocks BY DEF TypeOK, UpdatedMetas, Changes
<1>2. UpdatedCompacted(compacted[p], u) \in SUBSET Blocks
    BY DEF TypeOK, UpdatedCompacted, Changes
<1>3. Merge(pending[p], u) \in Changes
    <2>1. pending[p] \in Changes BY DEF TypeOK
    <2> QED BY <2>1 DEF Merge, Changes
<1> QED BY <1>1, <1>2, <1>3 DEF TypeOK, Update

(***************************************************************************)
(* A step of the poller of p keeps the types.                              *)
(***************************************************************************)
LEMMA PollTypes ==
    ASSUME TypeOK, NEW p \in Procs, PollStep(p) \/ PollFails(p)
    PROVE  TypeOK'
<1> DEFINE Poll == [pc : {"idle", "listed", "read", "apply"}, metas : SUBSET Blocks,
                    compacted : SUBSET Blocks, unknown : SUBSET (Blocks \X BOOLEAN),
                    marked : SUBSET Blocks]
<1>0. /\ poll[p] \in Poll /\ pending[p] \in Changes
      /\ metas[p] \in SUBSET Blocks /\ compacted[p] \in SUBSET Blocks
      /\ Scheduler \in Procs
    BY DEF TypeOK, Procs
<1>1. ASSUME UNCHANGED <<storeVars, polled, index, listVars, job>>, faults' \in 0 .. MaxFaults,
             NEW q \in Procs, NEW r \in Poll, poll' = [poll EXCEPT ![q] = r]
      PROVE  TypeOK'
    BY <1>1 DEF TypeOK, storeVars, listVars
<1>2. ASSUME Fault PROVE faults' \in 0 .. MaxFaults
    BY <1>2, BlocklistAssumption DEF TypeOK, Fault
<1>3. UNCHANGED faults => faults' \in 0 .. MaxFaults BY DEF TypeOK
<1>4. CASE TenantIndex
    <2>1. [pc |-> "apply", metas |-> index.metas, compacted |-> index.compacted,
           unknown |-> {}, marked |-> {}] \in Poll
        BY DEF TypeOK
    <2> QED BY <1>0, <1>1, <1>3, <1>4, <2>1 DEF TenantIndex
<1>5. CASE ListBlocks(p)
    <2> DEFINE r == [pc |-> "listed", metas |-> {b \in Blocks : HasMeta(b)},
                     compacted |-> {b \in Blocks : HasCompactedMeta(b)}, unknown |-> {},
                     marked |-> {b \in Blocks : store[b] = "compacted"}]
    <2>1. r \in Poll OBVIOUS
    <2>2. faults' \in 0 .. MaxFaults BY <1>2, <1>3, <1>5 DEF ListBlocks
    <2>3. poll' = [poll EXCEPT ![p] = r] BY <1>5 DEF ListBlocks
    <2> HIDE DEF r
    <2> QED BY <1>1, <1>5, <2>1, <2>2, <2>3 DEF ListBlocks
<1>6. CASE Classify(p)
    <2> DEFINE new == poll[p].compacted \ (compacted[p] \cup metas[p])
               r == [pc |-> "read", marked |-> poll[p].marked,
                     metas |-> poll[p].metas \cap metas[p],
                     compacted |-> poll[p].compacted \cap (compacted[p] \cup metas[p]),
                     unknown |-> ((poll[p].metas \ metas[p]) \ new) \X {FALSE}
                                 \cup new \X {TRUE}]
    <2>1. r \in Poll BY <1>0
    <2>2. poll' = [poll EXCEPT ![p] = r] BY <1>0, <1>6 DEF Classify, TypeOK
    <2> HIDE DEF r
    <2> QED BY <1>1, <1>3, <1>6, <2>1, <2>2 DEF Classify
<1>7. ASSUME NEW b \in Blocks, NEW comp \in BOOLEAN, pollBlock(p, b, comp) PROVE TypeOK'
    <2> DEFINE skip == ~comp /\ p = Scheduler /\ b \in flagged
               live == ~skip /\ ~comp /\ HasMeta(b)
               dead == ~skip /\ ~live /\ HasCompactedMeta(b)
               r == [pc |-> "read", marked |-> poll[p].marked,
                     unknown |-> poll[p].unknown \ {<<b, comp>>},
                     metas |-> IF live THEN poll[p].metas \cup {b} ELSE poll[p].metas,
                     compacted |-> IF dead THEN poll[p].compacted \cup {b}
                                   ELSE poll[p].compacted]
    <2>1. poll' = [poll EXCEPT ![p] = r] BY <1>0, <1>7 DEF pollBlock, TypeOK
    <2> HIDE DEF live, dead
    <2>2. r \in Poll BY <1>0
    <2> HIDE DEF r
    <2> QED BY <1>1, <1>3, <1>7, <2>1, <2>2 DEF pollBlock
<1>8. CASE WriteTenantIndex(p)
    <2>1. poll'  = [poll EXCEPT ![p] = [poll[p] EXCEPT !.pc = "apply"]]
        BY <1>8 DEF WriteTenantIndex, TypeOK
    <2>2. [poll[p] EXCEPT !.pc = "apply"] \in Poll BY <1>0
    <2>3. poll' \in [Procs -> Poll] BY <2>1, <2>2 DEF TypeOK
    <2>4. index' \in [there : BOOLEAN, metas : SUBSET Blocks, compacted : SUBSET Blocks]
        <3> DEFINE any == poll[p].metas \cup poll[p].compacted # {}
                   new == [there |-> any, metas |-> poll[p].metas,
                           compacted |-> poll[p].compacted]
        <3>1. index' = new \/ index' = index BY <1>8 DEF WriteTenantIndex
        <3>2. any \in BOOLEAN OBVIOUS
        <3> HIDE DEF any
        <3>3. new \in [there : BOOLEAN, metas : SUBSET Blocks, compacted : SUBSET Blocks]
            BY <1>0, <3>2
        <3> HIDE DEF new
        <3> QED BY <3>1, <3>3 DEF TypeOK
    <2>5. faults' \in 0 .. MaxFaults BY <1>2, <1>3, <1>8 DEF WriteTenantIndex
    <2> QED BY <1>8, <2>3, <2>4, <2>5 DEF WriteTenantIndex, TypeOK, storeVars, listVars
<1>9. CASE ApplyPollResults(p)
    <2>1. UpdatedMetas(poll[p].metas, pending[p]) \in SUBSET Blocks
        BY <1>0 DEF UpdatedMetas, Changes
    <2>2. UpdatedCompacted(poll[p].compacted, pending[p]) \in SUBSET Blocks
        BY <1>0 DEF UpdatedCompacted, Changes
    <2>3. NoChange \in Changes /\ NoPoll \in Poll BY DEF NoChange, Changes, NoPoll
    <2>4. polled' \in [Procs -> SUBSET Blocks] BY <1>0, <1>9 DEF ApplyPollResults, TypeOK
    <2>5. /\ metas' \in [Procs -> SUBSET Blocks] /\ compacted' \in [Procs -> SUBSET Blocks]
          /\ pending' \in [Procs -> Changes] /\ poll' \in [Procs -> Poll]
        BY <1>9, <2>1, <2>2, <2>3 DEF ApplyPollResults, TypeOK
    <2> QED BY <1>9, <2>4, <2>5 DEF ApplyPollResults, TypeOK, storeVars
<1>10. CASE PollFails(p)
    <2> DEFINE r == [pc |-> "apply", metas |-> metas[p], compacted |-> compacted[p],
                     unknown |-> {}, marked |-> {}]
    <2>1. NoPoll \in Poll /\ r \in Poll BY <1>0 DEF NoPoll
    <2>2. poll' = [poll EXCEPT ![p] = NoPoll] \/ poll' = [poll EXCEPT ![p] = r]
        BY <1>10 DEF PollFails
    <2> HIDE DEF r
    <2> QED BY <1>1, <1>2, <1>10, <2>1, <2>2 DEF PollFails
<1> QED BY <1>4, <1>5, <1>6, <1>7, <1>8, <1>9, <1>10 DEF PollStep

(***************************************************************************)
(* A step of a job, of the retention or of the block-builder keeps the     *)
(* types.                                                                  *)
(***************************************************************************)
LEMMA JobTypes ==
    ASSUME TypeOK,
           \/ MarkStep \/ ReportLost \/ StartJob
           \/ \E b \in Blocks : WriteBlock(b) \/ AllowCompaction(b)
    PROVE  TypeOK'
<1> DEFINE Job == [pc : {"idle", "mark", "report"}, by : Procs, ins : SUBSET Blocks,
                   out : Blocks \cup {NoBlock}, todo : SUBSET Blocks, err : BOOLEAN]
<1>0. job \in Job /\ NoJob \in Job /\ Scheduler \in Procs /\ Workers \subseteq Procs
    BY DEF TypeOK, NoJob, Procs
<1>1. Fault \/ UNCHANGED faults => faults' \in 0 .. MaxFaults
    BY BlocklistAssumption DEF TypeOK, Fault
<1>2. ASSUME NEW b \in Blocks, CopyMeta(b) \/ RemoveMeta(b) \/ MarkFails(b) PROVE TypeOK'
    <2>1. CASE CopyMeta(b)
        BY <1>2, <2>1 DEF CopyMeta, TypeOK, listVars, pollVars
    <2>2. CASE RemoveMeta(b)
        <3>1. job' \in Job BY <1>0, <2>2 DEF RemoveMeta
        <3> QED BY <1>2, <2>2, <3>1 DEF RemoveMeta, TypeOK, listVars, pollVars
    <2>3. CASE MarkFails(b)
        <3>1. job' \in Job BY <1>0, <2>3 DEF MarkFails
        <3>2. faults' \in 0 .. MaxFaults BY <1>1, <2>3 DEF MarkFails
        <3> QED BY <2>3, <3>1, <3>2 DEF MarkFails, TypeOK, storeVars, listVars, pollVars
    <2> QED BY <1>2, <2>1, <2>2, <2>3
<1>3. CASE markCompacted
    <2> DEFINE u == [add |-> {job.out} \ {NoBlock}, remove |-> job.ins,
                     compactedAdd |-> job.ins, compactedRemove |-> {}]
    <2>1. u \in Changes BY <1>0 DEF Changes
    <2>2. job' \in Job BY <1>0, <1>3 DEF markCompacted
    <2>3. taken' \in [Workers -> SUBSET Blocks]
        BY <1>0, <1>3 DEF markCompacted, TypeOK
    <2>4. UNCHANGED listVars \/ Update(job.by, u) BY <1>3 DEF markCompacted
    <2> HIDE DEF u
    <2>5. /\ metas' \in [Procs -> SUBSET Blocks] /\ compacted' \in [Procs -> SUBSET Blocks]
          /\ pending' \in [Procs -> Changes]
        BY <1>0, <2>1, <2>4, UpdateType DEF TypeOK, listVars
    <2> QED BY <1>3, <2>2, <2>3, <2>5 DEF markCompacted, TypeOK, pollVars
<1>4. CASE applyJobsToBlocklist
    <2> DEFINE old == job.ins \cap metas[Scheduler]
               u == [add |-> {}, remove |-> old, compactedAdd |-> old,
                     compactedRemove |-> {}]
    <2>1. u \in Changes BY <1>0 DEF Changes
    <2>2. Update(Scheduler, u) BY <1>4 DEF applyJobsToBlocklist
    <2> HIDE DEF u
    <2>3. /\ metas' \in [Procs -> SUBSET Blocks] /\ compacted' \in [Procs -> SUBSET Blocks]
          /\ pending' \in [Procs -> Changes]
        BY <1>0, <2>1, <2>2, UpdateType
    <2>4. job' \in Job BY <1>0, <1>4 DEF applyJobsToBlocklist
    <2> QED BY <1>4, <2>3, <2>4 DEF applyJobsToBlocklist, TypeOK, storeVars, pollVars
<1>5. CASE ReportLost
    <2>1. job' \in Job BY <1>0, <1>5 DEF ReportLost
    <2> QED BY <1>1, <1>5, <2>1 DEF ReportLost, TypeOK, storeVars, listVars, pollVars
<1>6. CASE StartJob
    <2>1. PICK w \in Workers :
             \/ \E S \in SUBSET metas[Scheduler], o \in Blocks : Compact(w, S, o)
             \/ \E b \in Blocks : Retain(w, b) \/ ClearBlock(w, b)
        BY <1>6 DEF StartJob
    <2>2. ASSUME NEW S \in SUBSET metas[Scheduler], NEW o \in Blocks, Compact(w, S, o)
          PROVE  TypeOK'
        <3>1. S \in SUBSET Blocks BY <1>0 DEF TypeOK
        <3>2. job' \in Job BY <1>0, <2>2, <3>1 DEF Compact
        <3>3. UNION {holds[b] : b \in S} \in SUBSET Blocks BY <3>1 DEF TypeOK
        <3>4. holds' \in [Blocks -> SUBSET Blocks] BY <2>2, <3>3 DEF Compact, TypeOK
        <3> QED BY <2>2, <3>2, <3>4 DEF Compact, TypeOK, listVars, pollVars
    <2>3. ASSUME NEW b \in Blocks, Retain(w, b) PROVE TypeOK'
        <3>1. job' \in Job BY <1>0, <2>3 DEF Retain
        <3>2. expired' \in SUBSET Blocks BY <2>3 DEF Retain, TypeOK
        <3> QED BY <2>3, <3>1, <3>2 DEF Retain, TypeOK, listVars, pollVars
    <2>4. ASSUME NEW b \in Blocks, ClearBlock(w, b) PROVE TypeOK'
        <3> DEFINE u == [NoChange EXCEPT !.compactedRemove = {b}]
        <3>1. u \in Changes BY DEF Changes, NoChange
        <3>2. Update(w, u) BY <2>4 DEF ClearBlock
        <3> HIDE DEF u
        <3>3. /\ metas' \in [Procs -> SUBSET Blocks] /\ compacted' \in [Procs -> SUBSET Blocks]
              /\ pending' \in [Procs -> Changes]
            BY <1>0, <3>1, <3>2, UpdateType
        <3> QED BY <2>4, <3>3 DEF ClearBlock, TypeOK, pollVars
    <2> QED BY <2>1, <2>2, <2>3, <2>4
<1>7. ASSUME NEW b \in Blocks, WriteBlock(b) \/ AllowCompaction(b) PROVE TypeOK'
    <2>1. CASE WriteBlock(b)
        <3>1. /\ store' \in [Blocks -> {"none", "live", "both", "compacted", "gone"}]
              /\ holds' \in [Blocks -> SUBSET Blocks] /\ flagged' \in SUBSET Blocks
            BY <2>1 DEF WriteBlock, TypeOK
        <3> QED BY <2>1, <3>1 DEF WriteBlock, TypeOK, listVars, pollVars
    <2>2. CASE AllowCompaction(b)
        BY <2>2 DEF AllowCompaction, TypeOK, listVars, pollVars
    <2> QED BY <1>7, <2>1, <2>2
<1> QED BY <1>2, <1>3, <1>4, <1>5, <1>6, <1>7 DEF MarkStep

(***************************************************************************)
(* Every step keeps the types.                                             *)
(***************************************************************************)
LEMMA TypeStep == TypeOK /\ [Next]_vars => TypeOK'
<1> SUFFICES ASSUME TypeOK, [Next]_vars PROVE TypeOK'
    OBVIOUS
<1>1. CASE \E p \in Procs : PollStep(p) \/ PollFails(p)
    BY <1>1, PollTypes
<1>2. CASE \/ MarkStep \/ ReportLost \/ StartJob
           \/ \E b \in Blocks : WriteBlock(b) \/ AllowCompaction(b)
    BY <1>2, JobTypes
<1>3. CASE UNCHANGED vars
    BY <1>3 DEF vars, storeVars, listVars, pollVars, TypeOK
<1> QED BY <1>1, <1>2, <1>3 DEF Next

(***************************************************************************)
(* A step of the poller of p keeps the rest.  A listing has only blocks    *)
(* with a meta, which a taken one has lost; what an older listing has is   *)
(* among the changes that ApplyPollResults puts on top.                    *)
(***************************************************************************)
LEMMA PollKeeps ==
    ASSUME BlocklistInv, TypeOK', NEW p \in Procs, PollStep(p) \/ PollFails(p)
    PROVE  KnownBlocks' /\ JobOK' /\ TakenOK'
<1>0. /\ TypeOK /\ KnownBlocks /\ JobOK /\ TakenOK
      /\ UNCHANGED <<store, taken, job>>
    BY DEF BlocklistInv, PollStep, PollFails, TenantIndex, ListBlocks, Classify, pollBlock,
           WriteTenantIndex, ApplyPollResults, storeVars
<1>1. Written' = Written BY <1>0 DEF Written
<1>2. JobOK' BY <1>0, <1>1 DEF JobOK
<1>3. ASSUME UNCHANGED listVars, index'.metas \subseteq Written,
             NEW q \in Procs, NEW m, m \subseteq Written, poll'[q].metas = m,
             \A r \in Procs \ {q} : poll'[r] = poll[r],
             q \in Workers => \A b \in taken[q] : b \in m => b \in pending[q].remove
      PROVE  KnownBlocks' /\ TakenOK'
    <2>1. KnownBlocks'
        BY <1>0, <1>1, <1>3 DEF KnownBlocks, listVars
    <2>2. ASSUME NEW w \in Workers, NEW b \in taken[w]
          PROVE  b \in poll'[w].metas => b \in pending[w].remove
        BY <1>0, <1>3, <2>2 DEF TakenOK, Procs
    <2>3. TakenOK' BY <1>0, <1>3, <2>2 DEF TakenOK, listVars
    <2> QED BY <2>1, <2>3
<1>4. ASSUME NEW w \in Workers, NEW b \in taken[w] PROVE ~HasMeta(b) /\ b \notin metas[w]
    BY <1>0, <1>4 DEF TakenOK, HasMeta
<1>5. UNCHANGED index => index'.metas \subseteq Written BY <1>0 DEF KnownBlocks
<1>6. CASE p = Scheduler /\ TenantIndex
    <2>1. poll'[p].metas = index.metas /\ \A r \in Procs \ {p} : poll'[r] = poll[r]
        BY <1>0, <1>6 DEF TenantIndex, TypeOK
    <2>2. UNCHANGED listVars /\ UNCHANGED index BY <1>6 DEF TenantIndex
    <2>3. index.metas \subseteq Written /\ p \notin Workers
        BY <1>0, <1>6, BlocklistAssumption DEF KnownBlocks
    <2> QED BY <1>2, <1>3, <1>5, <2>1, <2>2, <2>3
<1>7. CASE ListBlocks(p)
    <2> DEFINE m == {b \in Blocks : HasMeta(b)}
    <2>1. poll'[p].metas = m /\ \A r \in Procs \ {p} : poll'[r] = poll[r]
        BY <1>0, <1>7 DEF ListBlocks, TypeOK
    <2>2. UNCHANGED listVars /\ UNCHANGED index BY <1>7 DEF ListBlocks
    <2>3. m \subseteq Written BY DEF HasMeta, Written
    <2>4. p \in Workers => \A b \in taken[p] : b \notin m BY <1>4
    <2> HIDE DEF m
    <2> QED BY <1>2, <1>3, <1>5, <2>1, <2>2, <2>3, <2>4
<1>8. CASE Classify(p)
    <2> DEFINE m == poll[p].metas \cap metas[p]
    <2>1. poll'[p].metas = m /\ \A r \in Procs \ {p} : poll'[r] = poll[r]
        BY <1>0, <1>8 DEF Classify, TypeOK
    <2>2. UNCHANGED listVars /\ UNCHANGED index BY <1>8 DEF Classify
    <2>3. m \subseteq Written BY <1>0 DEF KnownBlocks
    <2>4. p \in Workers => \A b \in taken[p] : b \notin m BY <1>4
    <2> HIDE DEF m
    <2> QED BY <1>2, <1>3, <1>5, <2>1, <2>2, <2>3, <2>4
<1>9. ASSUME NEW c \in Blocks, NEW comp \in BOOLEAN, pollBlock(p, c, comp)
      PROVE  KnownBlocks' /\ JobOK' /\ TakenOK'
    <2> DEFINE m == poll'[p].metas
    <2>1. m \subseteq poll[p].metas \cup {b \in Blocks : HasMeta(b)}
        BY <1>0, <1>9 DEF pollBlock, TypeOK
    <2>2. \A r \in Procs \ {p} : poll'[r] = poll[r] BY <1>0, <1>9 DEF pollBlock, TypeOK
    <2>3. UNCHANGED listVars /\ UNCHANGED index BY <1>9 DEF pollBlock
    <2>4. m \subseteq Written BY <1>0, <2>1 DEF KnownBlocks, HasMeta, Written
    <2>5. p \in Workers => \A b \in taken[p] : b \in m => b \in pending[p].remove
        BY <1>0, <1>4, <2>1 DEF TakenOK
    <2> HIDE DEF m
    <2>6. poll'[p].metas = m BY DEF m
    <2> QED BY <1>2, <1>3, <1>5, <2>2, <2>3, <2>4, <2>5, <2>6
<1>10. CASE WriteTenantIndex(p)
    <2>1. poll'[p].metas = poll[p].metas /\ \A r \in Procs \ {p} : poll'[r] = poll[r]
        BY <1>0, <1>10 DEF WriteTenantIndex, TypeOK
    <2>2. UNCHANGED listVars BY <1>10 DEF WriteTenantIndex
    <2>3. poll[p].metas \subseteq Written BY <1>0 DEF KnownBlocks
    <2>4. index'.metas \subseteq Written
        BY <1>5, <1>10, <2>3 DEF WriteTenantIndex
    <2>5. p \in Workers => \A b \in taken[p] : b \in poll[p].metas => b \in pending[p].remove
        BY <1>0 DEF TakenOK
    <2> QED BY <1>2, <1>3, <2>1, <2>2, <2>3, <2>4, <2>5
<1>11. CASE ApplyPollResults(p)
    <2> DEFINE m == UpdatedMetas(poll[p].metas, pending[p])
    <2>1. /\ metas'[p] = m /\ pending'[p] = NoChange /\ poll'[p] = NoPoll
          /\ \A r \in Procs \ {p} : /\ metas'[r] = metas[r] /\ pending'[r] = pending[r]
                                    /\ poll'[r] = poll[r]
          /\ index' = index
        BY <1>0, <1>11 DEF ApplyPollResults, TypeOK
    <2>2. m \subseteq Written BY <1>0 DEF UpdatedMetas, KnownBlocks
    <2>3. p \in Workers => \A b \in taken[p] : b \notin m
        BY <1>0 DEF UpdatedMetas, TakenOK
    <2> HIDE DEF m
    <2>4. NoChange.add = {} /\ NoPoll.metas = {} BY DEF NoChange, NoPoll
    <2>5. KnownBlocks' BY <1>0, <1>1, <2>1, <2>2, <2>4 DEF KnownBlocks
    <2>6. ASSUME NEW w \in Workers, NEW b \in taken[w]
          PROVE  /\ store[b] \in {"compacted", "gone"} /\ b \notin metas'[w]
                 /\ b \in poll'[w].metas => b \in pending'[w].remove
                 /\ b \in pending'[w].add => b \in pending'[w].remove
        <3>1. CASE w = p BY <1>0, <2>1, <2>3, <2>4, <2>6, <3>1 DEF TakenOK
        <3>2. CASE w # p BY <1>0, <2>1, <2>6, <3>2 DEF TakenOK, Procs
        <3> QED BY <3>1, <3>2
    <2>7. TakenOK' BY <1>0, <2>6 DEF TakenOK
    <2> QED BY <1>2, <2>5, <2>7
<1>12. CASE PollFails(p)
    <2> DEFINE m == poll'[p].metas
    <2>1. (m = {} \/ m = metas[p]) /\ \A r \in Procs \ {p} : poll'[r] = poll[r]
        BY <1>0, <1>12 DEF PollFails, TypeOK, NoPoll
    <2>2. UNCHANGED listVars /\ UNCHANGED index BY <1>12 DEF PollFails
    <2>3. m \subseteq Written BY <1>0, <2>1 DEF KnownBlocks
    <2>4. p \in Workers => \A b \in taken[p] : b \notin m BY <1>4, <2>1
    <2>5. poll'[p].metas = m OBVIOUS
    <2> HIDE DEF m
    <2> QED BY <1>2, <1>3, <1>5, <2>1, <2>2, <2>3, <2>4, <2>5
<1> QED BY <1>6, <1>7, <1>8, <1>9, <1>10, <1>11, <1>12 DEF PollStep

(***************************************************************************)
(* A change u of the list of p that adds only live blocks and takes none   *)
(* of its changes back brings no taken block back.                         *)
(***************************************************************************)
LEMMA UpdateKeeps ==
    ASSUME TypeOK, KnownBlocks, TakenOK, NEW p \in Procs, NEW u \in Changes, Update(p, u),
           UNCHANGED <<poll, index>>, Written \subseteq Written', u.add \subseteq Written',
           \A w \in Workers : \A b \in taken[w] : store'[b] \in {"compacted", "gone"},
           p \in Workers => u.add \cap taken[p] = {},
           \A w \in Workers :
             \/ taken'[w] = taken[w]
             \/ /\ w = p
                /\ taken'[w] \subseteq
                     (taken[w] \cup {b \in u.remove : store'[b] \in {"compacted", "gone"}})
    PROVE  KnownBlocks' /\ TakenOK'
<1>1. /\ metas'[p] = UpdatedMetas(metas[p], u)
      /\ pending'[p] = Merge(pending[p], u)
      /\ \A r \in Procs \ {p} : metas'[r] = metas[r] /\ pending'[r] = pending[r]
    BY DEF Update, TypeOK
<1>2. UpdatedMetas(metas[p], u) \subseteq Written' BY DEF UpdatedMetas, KnownBlocks
<1>3. /\ Merge(pending[p], u).add = pending[p].add \cup u.add
      /\ Merge(pending[p], u).remove = pending[p].remove \cup u.remove
    BY DEF Merge
<1>4. KnownBlocks' BY <1>1, <1>2, <1>3 DEF KnownBlocks
<1>5. ASSUME NEW w \in Workers, NEW b \in taken'[w]
      PROVE  /\ store'[b] \in {"compacted", "gone"} /\ b \notin metas'[w]
             /\ b \in poll'[w].metas => b \in pending'[w].remove
             /\ b \in pending'[w].add => b \in pending'[w].remove
    <2>0. w \in Procs BY DEF Procs
    <2>1. CASE w # p BY <1>1, <1>5, <2>0, <2>1 DEF TakenOK
    <2>2. CASE w = p /\ b \in taken[w]
        <3>1. b \notin u.add BY <2>2
        <3>2. b \notin metas'[w] BY <1>1, <2>2, <3>1 DEF UpdatedMetas, TakenOK
        <3> QED BY <1>1, <1>3, <2>2, <3>1, <3>2 DEF TakenOK
    <2>3. CASE w = p /\ b \notin taken[w]
        <3>1. b \in u.remove /\ store'[b] \in {"compacted", "gone"} BY <1>5, <2>3
        <3>2. b \notin metas'[w] BY <1>1, <2>3, <3>1 DEF UpdatedMetas
        <3> QED BY <1>1, <1>3, <2>3, <3>1, <3>2
    <2> QED BY <2>1, <2>2, <2>3
<1>6. TakenOK' BY <1>5 DEF TakenOK
<1> QED BY <1>4, <1>6

(***************************************************************************)
(* A step that leaves lists and polls alone and takes no block out of the  *)
(* store keeps what is said of them.                                       *)
(***************************************************************************)
LEMMA StoreKeeps ==
    ASSUME TypeOK, KnownBlocks, TakenOK, UNCHANGED <<listVars, pollVars, index, taken>>,
           Written \subseteq Written',
           \A b \in Blocks : store[b] \in {"compacted", "gone"} => store'[b] = store[b]
    PROVE  KnownBlocks' /\ TakenOK'
<1>1. KnownBlocks' BY DEF KnownBlocks, listVars, pollVars
<1>2. \A w \in Workers : taken[w] \subseteq Blocks BY DEF TypeOK
<1>3. TakenOK' BY <1>2 DEF TakenOK, listVars, pollVars
<1> QED BY <1>1, <1>3

(***************************************************************************)
(* Marking keeps the rest: the output of a job stays live, and a marked    *)
(* input is compacted for good when its list loses it.                     *)
(***************************************************************************)
LEMMA MarkKeeps ==
    ASSUME BlocklistInv, TypeOK', MarkStep \/ ReportLost
    PROVE  KnownBlocks' /\ JobOK' /\ TakenOK'
<1>0. TypeOK /\ KnownBlocks /\ JobOK /\ TakenOK BY DEF BlocklistInv
<1>1. ASSUME NEW b \in Blocks, CopyMeta(b) \/ RemoveMeta(b)
      PROVE  KnownBlocks' /\ JobOK' /\ TakenOK'
    <2>1. /\ store' = [store EXCEPT ![b] = "both"] \/ store' = [store EXCEPT ![b] = "compacted"]
          /\ UNCHANGED <<listVars, pollVars, index, taken>>
          /\ store[b] \in {"live", "both"} /\ b \in job.todo /\ job.pc = "mark"
          /\ job' = job \/ job' = [job EXCEPT !.todo = @ \ {b}]
        BY <1>1 DEF CopyMeta, RemoveMeta
    <2>2. \A c \in Blocks \ {b} : store'[c] = store[c] BY <1>0, <2>1 DEF TypeOK
    <2>3. store'[b] \in {"both", "compacted"} BY <1>0, <2>1 DEF TypeOK
    <2>4. Written \subseteq Written' BY <2>2, <2>3 DEF Written
    <2>5. \A c \in Blocks : store[c] \in {"compacted", "gone"} => store'[c] = store[c]
        BY <2>1, <2>2
    <2>6. KnownBlocks' /\ TakenOK' BY <1>0, <2>1, <2>4, <2>5, StoreKeeps
    <2>7. /\ job'.by = job.by /\ job'.ins = job.ins /\ job'.out = job.out
          /\ job'.todo \subseteq job.todo
        BY <1>0, <2>1 DEF TypeOK
    <2>8. job.out # NoBlock => job.out \in Blocks /\ job.out # b
        BY <1>0, <2>1 DEF JobOK, TypeOK
    <2>9. JobOK' BY <1>0, <2>1, <2>2, <2>4, <2>7, <2>8 DEF JobOK
    <2> QED BY <2>6, <2>9
<1>2. ASSUME NEW b \in Blocks, MarkFails(b) PROVE KnownBlocks' /\ JobOK' /\ TakenOK'
    <2>1. /\ UNCHANGED <<listVars, pollVars, index, taken, store>>
          /\ job' = [job EXCEPT !.todo = @ \ {b}, !.err = TRUE] /\ job.pc = "mark"
        BY <1>2 DEF MarkFails, storeVars
    <2>2. Written' = Written BY <2>1 DEF Written
    <2>3. KnownBlocks' /\ TakenOK' BY <1>0, <2>1, <2>2, StoreKeeps
    <2>4. /\ job'.by = job.by /\ job'.ins = job.ins /\ job'.out = job.out
          /\ job'.todo \subseteq job.todo
        BY <1>0, <2>1 DEF TypeOK
    <2>5. JobOK' BY <1>0, <2>1, <2>2, <2>4 DEF JobOK
    <2> QED BY <2>3, <2>5
<1>3. CASE markCompacted
    <2> DEFINE u == [add |-> {job.out} \ {NoBlock}, remove |-> job.ins,
                     compactedAdd |-> job.ins, compactedRemove |-> {}]
    <2>1. job.pc = "mark" /\ UNCHANGED <<store, poll, polled, index>>
        BY <1>3 DEF markCompacted, pollVars
    <2>2. Written' = Written BY <2>1 DEF Written
    <2>3. JobOK' BY <1>0, <1>3 DEF markCompacted, JobOK, NoJob, TypeOK
    <2>4. CASE UNCHANGED <<listVars, taken>>
        <3>1. KnownBlocks' /\ TakenOK' BY <1>0, <2>1, <2>2, <2>4, StoreKeeps DEF pollVars
        <3> QED BY <2>3, <3>1
    <2>5. CASE /\ Update(job.by, u)
               /\ taken' = [taken EXCEPT ![job.by] = @ \cup {b \in job.ins : ~HasMeta(b)}]
        <3>1. job.by \in Workers /\ job.by \in Procs BY <1>0, <2>1 DEF JobOK, Procs
        <3>2. u \in Changes BY <1>0 DEF Changes, TypeOK
        <3>3. u.remove = job.ins /\ u.add = {job.out} \ {NoBlock} OBVIOUS
        <3>4. u.add \subseteq Written /\ \A b \in u.add : store[b] = "live"
            BY <1>0, <2>1, <3>3 DEF JobOK, Written, TypeOK
        <3>5. u.add \cap taken[job.by] = {} BY <1>0, <3>1, <3>4 DEF TakenOK
        <3>6. \A b \in job.ins : ~HasMeta(b) => store[b] \in {"compacted", "gone"}
            BY <1>0, <2>1 DEF JobOK, Written, TypeOK, HasMeta
        <3>7. \A w \in Workers :
                \/ taken'[w] = taken[w]
                \/ /\ w = job.by
                   /\ taken'[w] \subseteq
                        (taken[w] \cup {b \in u.remove : store'[b] \in {"compacted", "gone"}})
            BY <1>0, <2>1, <2>5, <3>1, <3>3, <3>6 DEF TypeOK
        <3>8. \A w \in Workers : \A b \in taken[w] : store'[b] \in {"compacted", "gone"}
            BY <1>0, <2>1 DEF TakenOK
        <3> HIDE DEF u
        <3>9. KnownBlocks' /\ TakenOK'
            BY <1>0, <2>1, <2>2, <2>5, <3>1, <3>2, <3>4, <3>5, <3>7, <3>8, UpdateKeeps
        <3> QED BY <2>3, <3>9
    <2> QED BY <1>3, <2>4, <2>5 DEF markCompacted
<1>4. CASE applyJobsToBlocklist
    <2> DEFINE old == job.ins \cap metas[Scheduler]
               u == [add |-> {}, remove |-> old, compactedAdd |-> old,
                     compactedRemove |-> {}]
    <2>1. Update(Scheduler, u) /\ UNCHANGED <<store, taken, poll, index>> /\ job' = NoJob
        BY <1>4 DEF applyJobsToBlocklist, storeVars, pollVars
    <2>2. u \in Changes /\ Scheduler \in Procs BY <1>0 DEF Changes, TypeOK, Procs
    <2>3. u.add = {} OBVIOUS
    <2> HIDE DEF u
    <2>4. Written' = Written BY <2>1 DEF Written
    <2>5. \A w \in Workers : \A b \in taken[w] : store'[b] \in {"compacted", "gone"}
        BY <1>0, <2>1 DEF TakenOK
    <2>6. KnownBlocks' /\ TakenOK'
        BY <1>0, <2>1, <2>2, <2>3, <2>4, <2>5, UpdateKeeps
    <2>7. JobOK' BY <2>1 DEF JobOK, NoJob
    <2> QED BY <2>6, <2>7
<1>5. CASE ReportLost
    <2>1. UNCHANGED <<listVars, pollVars, index, taken, store>> /\ job' = NoJob
        BY <1>5 DEF ReportLost, storeVars
    <2>2. Written' = Written BY <2>1 DEF Written
    <2>3. KnownBlocks' /\ TakenOK' BY <1>0, <2>1, <2>2, StoreKeeps
    <2>4. JobOK' BY <2>1 DEF JobOK, NoJob
    <2> QED BY <2>3, <2>4
<1> QED BY <1>1, <1>2, <1>3, <1>4, <1>5 DEF MarkStep

(***************************************************************************)
(* The start of a job, a clear and the steps of the block-builder keep the *)
(* rest: an output is a block that was not there, and clearing a block     *)
(* leaves it without a meta.                                               *)
(***************************************************************************)
LEMMA StartKeeps ==
    ASSUME BlocklistInv, TypeOK',
           StartJob \/ \E b \in Blocks : WriteBlock(b) \/ AllowCompaction(b)
    PROVE  KnownBlocks' /\ JobOK' /\ TakenOK'
<1>0. TypeOK /\ KnownBlocks /\ JobOK /\ TakenOK BY DEF BlocklistInv
<1>1. ASSUME NEW w \in Workers, NEW S \in SUBSET metas[Scheduler], NEW o \in Blocks,
             Compact(w, S, o)
      PROVE  KnownBlocks' /\ JobOK' /\ TakenOK'
    <2>1. /\ UNCHANGED <<listVars, pollVars, index, taken>>
          /\ store' = [store EXCEPT ![o] = "live"] /\ store[o] = "none"
          /\ \A b \in S : store[b] \in {"live", "both", "compacted"}
          /\ job'.by = w /\ job'.ins = S /\ job'.todo = S /\ job'.out = o
        BY <1>1 DEF Compact
    <2>2. /\ store'[o] = "live"
          /\ \A b \in Blocks : store[b] # "none" => store'[b] = store[b]
        BY <1>0, <2>1 DEF TypeOK
    <2>3. Written \subseteq Written' BY <2>2 DEF Written
    <2>4. KnownBlocks' /\ TakenOK' BY <1>0, <2>1, <2>2, <2>3, StoreKeeps
    <2>5. S \subseteq Written' /\ o \notin S
        BY <1>0, <2>1, <2>3 DEF KnownBlocks, Procs
    <2>6. JobOK' BY <2>1, <2>2, <2>5 DEF JobOK
    <2> QED BY <2>4, <2>6
<1>2. ASSUME NEW w \in Workers, NEW b \in Blocks, Retain(w, b)
      PROVE  KnownBlocks' /\ JobOK' /\ TakenOK'
    <2>1. /\ UNCHANGED <<listVars, pollVars, index, taken, store>>
          /\ job'.by = w /\ job'.ins = {b} /\ job'.todo = {b} /\ job'.out = NoBlock
          /\ b \in metas[w]
        BY <1>2 DEF Retain
    <2>2. Written' = Written BY <2>1 DEF Written
    <2>3. KnownBlocks' /\ TakenOK' BY <1>0, <2>1, <2>2, StoreKeeps
    <2>4. b \in Written BY <1>0, <2>1 DEF KnownBlocks, Procs
    <2>5. JobOK' BY <2>1, <2>2, <2>4 DEF JobOK
    <2> QED BY <2>3, <2>5
<1>3. ASSUME NEW w \in Workers, NEW b \in Blocks, ClearBlock(w, b)
      PROVE  KnownBlocks' /\ JobOK' /\ TakenOK'
    <2> DEFINE u == [NoChange EXCEPT !.compactedRemove = {b}]
    <2>1. /\ UNCHANGED <<taken, poll, index, job>> /\ job.pc = "idle"
          /\ store' = [store EXCEPT ![b] = "gone"] /\ store[b] = "compacted"
          /\ Update(w, u)
        BY <1>3 DEF ClearBlock, pollVars
    <2>2. u \in Changes /\ u.add = {} BY DEF Changes, NoChange
    <2> HIDE DEF u
    <2>3. /\ store'[b] = "gone"
          /\ \A c \in Blocks : c # b => store'[c] = store[c]
        BY <1>0, <2>1 DEF TypeOK
    <2>4. Written \subseteq Written' BY <2>3 DEF Written
    <2>5. \A v \in Workers : \A c \in taken[v] : store'[c] \in {"compacted", "gone"}
        BY <1>0, <2>3 DEF TakenOK, TypeOK
    <2>6. w \in Procs BY DEF Procs
    <2>7. KnownBlocks' /\ TakenOK'
        BY <1>0, <2>1, <2>2, <2>4, <2>5, <2>6, UpdateKeeps
    <2>8. JobOK' BY <2>1 DEF JobOK
    <2> QED BY <2>7, <2>8
<1>4. ASSUME NEW b \in Blocks, WriteBlock(b) PROVE KnownBlocks' /\ JobOK' /\ TakenOK'
    <2>1. /\ UNCHANGED <<listVars, pollVars, index, taken, job>>
          /\ store' = [store EXCEPT ![b] = "live"] /\ store[b] = "none"
        BY <1>4 DEF WriteBlock
    <2>2. \A c \in Blocks : store[c] # "none" => store'[c] = store[c]
        BY <1>0, <2>1 DEF TypeOK
    <2>3. Written \subseteq Written'
        <3>1. store'[b] = "live" BY <1>0, <2>1 DEF TypeOK
        <3> QED BY <2>2, <3>1 DEF Written
    <2>4. KnownBlocks' /\ TakenOK' BY <1>0, <2>1, <2>2, <2>3, StoreKeeps
    <2>5. JobOK' BY <1>0, <2>1, <2>2, <2>3 DEF JobOK, TypeOK
    <2> QED BY <2>4, <2>5
<1>5. ASSUME NEW b \in Blocks, AllowCompaction(b) PROVE KnownBlocks' /\ JobOK' /\ TakenOK'
    <2>1. UNCHANGED <<listVars, pollVars, index, taken, job, store>>
        BY <1>5 DEF AllowCompaction
    <2>2. Written' = Written BY <2>1 DEF Written
    <2>3. KnownBlocks' /\ TakenOK' BY <1>0, <2>1, <2>2, StoreKeeps
    <2>4. JobOK' BY <1>0, <2>1, <2>2 DEF JobOK
    <2> QED BY <2>3, <2>4
<1> QED BY <1>1, <1>2, <1>3, <1>4, <1>5 DEF StartJob

(***************************************************************************)
(* Every step keeps the invariant.                                         *)
(***************************************************************************)
LEMMA InvStep == BlocklistInv /\ [Next]_vars => BlocklistInv'
<1> SUFFICES ASSUME BlocklistInv, [Next]_vars PROVE BlocklistInv'
    OBVIOUS
<1>1. TypeOK' BY TypeStep DEF BlocklistInv
<1>2. CASE \E p \in Procs : PollStep(p) \/ PollFails(p)
    BY <1>1, <1>2, PollKeeps DEF BlocklistInv
<1>3. CASE MarkStep \/ ReportLost
    BY <1>1, <1>3, MarkKeeps DEF BlocklistInv
<1>4. CASE StartJob \/ \E b \in Blocks : WriteBlock(b) \/ AllowCompaction(b)
    BY <1>1, <1>4, StartKeeps DEF BlocklistInv
<1>5. CASE UNCHANGED vars
    BY <1>1, <1>5 DEF BlocklistInv, vars, storeVars, listVars, pollVars, KnownBlocks, JobOK,
                      TakenOK, Written
<1> QED BY <1>2, <1>3, <1>4, <1>5 DEF Next

(***************************************************************************)
(* The lists, polls, changes and jobs of the poller, the compactor and the *)
(* retention have their types in every reachable state.                    *)
(***************************************************************************)
THEOREM BlocklistTypeOK == Spec => []TypeOK
<1>1. BlocklistInv => TypeOK BY DEF BlocklistInv
<1> QED BY <1>1, InvInit, InvStep, PTL DEF Spec

(***************************************************************************)
(* List.Update and ApplyPollResults bring no block back that a job of the  *)
(* worker has marked and taken out of its list, whatever polls, other      *)
(* workers and failures do: NoRevival holds in every reachable state.      *)
(***************************************************************************)
THEOREM BlocklistNoRevival == Spec => []NoRevival
<1>1. BlocklistInv => NoRevival BY DEF BlocklistInv, TakenOK, NoRevival
<1> QED BY <1>1, InvInit, InvStep, PTL DEF Spec

(***************************************************************************)
(* What keeps NothingHidden.  The blocks a query can read are the readable *)
(* ones of a list; a section is kept by a list when one of them holds it.  *)
(* Outlives: whatever the blocks of M hold and retention has not given up, *)
(* a readable block of V outside M holds as well, so that V keeps it when  *)
(* the blocks of M are cleared.                                            *)
(***************************************************************************)
Readable == {b \in Blocks : store[b] \in {"live", "both", "compacted"}}
Marked == {b \in Blocks : store[b] \in {"compacted", "gone"}}
Copied == {b \in Blocks : store[b] \in {"both", "compacted", "gone"}}

Has(V, s, h, r) == \E b \in V : b \in r /\ s \in h[b]
Outlives(V, M, h, r, e) == \A b \in M : \A s \in h[b] \ e : Has(V \ M, s, h, r)

\* The list of w, and what it becomes when the poll under way is applied: the
\* blocks it has found or has still to read and those of the changes since.
Listed(w) == metas[w] \cup compacted[w]
Unread(w) == {b \in Blocks : \E comp \in BOOLEAN : <<b, comp>> \in poll[w].unknown}
Polls(w) == poll[w].metas \cup poll[w].compacted \cup Unread(w)
            \cup pending[w].add \cup pending[w].compactedAdd

\* The compacted blocks that are listed have been written.
CompactedWritten(w) == /\ compacted[w] \subseteq Written
                       /\ poll[w].compacted \subseteq Written
                       /\ pending[w].compactedAdd \subseteq Written

\* A change takes a live block away only to add it as a compacted one, and a
\* compacted one only when it is gone.
ChangesOK(w) == /\ pending[w].remove \subseteq pending[w].compactedAdd
                /\ \A b \in pending[w].compactedRemove : store[b] = "gone"

\* A block that was listed as compacted has kept meta.compacted.json or is
\* gone, and one that a poll counts as marked has no meta.json any more.
PollOK(w) == /\ poll[w].pc \in {"listed", "apply"} => poll[w].unknown = {}
             /\ poll[w].pc = "listed" => poll[w].compacted \subseteq Copied
             /\ \A b \in Blocks : <<b, TRUE>> \in poll[w].unknown => b \in Copied
             /\ polled[w] \subseteq Marked /\ poll[w].marked \subseteq Marked

\* The list outlives the blocks that ClearBlock may clear, and so does the
\* list that the poll under way will leave, which keeps what is found now.
ListHolds(w) == Outlives(Listed(w), polled[w], holds, Readable, expired)
PollHolds(w) ==
    poll[w].pc # "idle" =>
      /\ \A s \in Blocks \ expired :
            Has(Listed(w), s, holds, Readable) => Has(Polls(w), s, holds, Readable)
      /\ Outlives(Polls(w), polled[w] \cup poll[w].marked, holds, Readable, expired)

WorkerOK(w) == /\ CompactedWritten(w) /\ ChangesOK(w) /\ PollOK(w)
               /\ ListHolds(w) /\ PollHolds(w)

\* While inputs are marked the output holds what they hold, and what a marked
\* block holds is in a block that still has its meta.json.
OutputHolds == job.pc = "mark" =>
                 \A b \in job.ins : \A s \in holds[b] \ expired :
                    job.out # NoBlock /\ s \in holds[job.out]
StoreHolds == \A b \in Marked : \A s \in holds[b] \ expired :
                \E o \in Blocks : HasMeta(o) /\ s \in holds[o]

KeepInv == OutputHolds /\ StoreHolds /\ \A w \in Workers : WorkerOK(w)

\* The step hides nothing from a query through w.
Keeps(w) == \A s \in Blocks : Found(w, s) /\ s \notin expired => Found(w, s)'

(***************************************************************************)
(* A query finds what a readable block of the list holds.                  *)
(***************************************************************************)
LEMMA FoundIsHas ==
    ASSUME TypeOK, NEW w \in Workers, NEW s
    PROVE  Found(w, s) <=> Has(Listed(w), s, holds, Readable)
<1>1. Listed(w) \subseteq Blocks BY DEF TypeOK, Listed, Procs
<1> QED BY <1>1 DEF Found, Has, Listed, Readable

(***************************************************************************)
(* The same of the next state.                                             *)
(***************************************************************************)
LEMMA FoundIsHasNext ==
    ASSUME TypeOK', NEW w \in Workers, NEW s
    PROVE  Found(w, s)' <=> Has(Listed(w)', s, holds', Readable')
<1>1. Listed(w)' \subseteq Blocks BY DEF TypeOK, Listed, Procs
<1> QED BY <1>1 DEF Found, Has, Listed, Readable

(***************************************************************************)
(* Outlives is kept when the readable blocks of V outside M stay in V and  *)
(* readable, hold what they held, and nothing is taken back from what has  *)
(* been given up.                                                          *)
(***************************************************************************)
LEMMA OutlivesKept ==
    ASSUME NEW V, NEW M, NEW h, NEW r, NEW e, NEW V2, NEW h2, NEW r2, NEW e2,
           Outlives(V, M, h, r, e), e \subseteq e2,
           \A b \in M : h2[b] = h[b],
           \A o \in V \ M : o \in r => o \in V2 /\ o \in r2 /\ h2[o] = h[o]
    PROVE  Outlives(V2, M, h2, r2, e2)
<1> SUFFICES ASSUME NEW b \in M, NEW s \in h2[b] \ e2 PROVE Has(V2 \ M, s, h2, r2)
    BY DEF Outlives
<1>1. PICK o \in V \ M : o \in r /\ s \in h[o] BY DEF Outlives, Has
<1> QED BY <1>1 DEF Has

(***************************************************************************)
(* The empty store keeps everything.                                       *)
(***************************************************************************)
LEMMA KeepInit == Init => KeepInv
<1> SUFFICES ASSUME Init PROVE KeepInv
    OBVIOUS
<1>1. OutputHolds BY DEF Init, NoJob, OutputHolds
<1>2. StoreHolds BY DEF Init, StoreHolds, Marked
<1>3. ASSUME NEW w \in Workers PROVE WorkerOK(w)
    <2>0. /\ compacted[w] = {} /\ pending[w] = NoChange /\ poll[w] = NoPoll
          /\ polled[w] = {}
        BY DEF Init, Procs
    <2>1. CompactedWritten(w) /\ ChangesOK(w) /\ PollOK(w)
        BY <2>0 DEF NoChange, NoPoll, CompactedWritten, ChangesOK, PollOK
    <2>2. ListHolds(w) BY <2>0 DEF ListHolds, Outlives
    <2>3. PollHolds(w) BY <2>0 DEF PollHolds, NoPoll
    <2> QED BY <2>1, <2>2, <2>3 DEF WorkerOK
<1> QED BY <1>1, <1>2, <1>3 DEF KeepInv

(***************************************************************************)
(* A step that touches neither the list and the poll of w nor the store    *)
(* keeps what is said of w.                                                *)
(***************************************************************************)
LEMMA OtherWorker ==
    ASSUME NEW w \in Workers, WorkerOK(w), UNCHANGED <<store, holds, expired>>,
           metas'[w] = metas[w], compacted'[w] = compacted[w], pending'[w] = pending[w],
           poll'[w] = poll[w], polled'[w] = polled[w]
    PROVE  WorkerOK(w)' /\ Keeps(w)
<1>1. /\ Written' = Written /\ Readable' = Readable /\ Marked' = Marked /\ Copied' = Copied
      /\ Listed(w)' = Listed(w) /\ Polls(w)' = Polls(w)
    BY DEF Written, Readable, Marked, Copied, Listed, Polls, Unread
<1>2. CompactedWritten(w)' /\ ChangesOK(w)' /\ PollOK(w)'
    BY <1>1 DEF WorkerOK, CompactedWritten, ChangesOK, PollOK
<1>3. ListHolds(w)' BY <1>1 DEF WorkerOK, ListHolds
<1>4. PollHolds(w)' BY <1>1 DEF WorkerOK, PollHolds
<1>5. Keeps(w) BY DEF Keeps, Found
<1> QED BY <1>2, <1>3, <1>4, <1>5 DEF WorkerOK

(***************************************************************************)
(* So does a step that leaves every list and poll alone, makes no written  *)
(* block readable or unreadable and only goes on with its marking.         *)
(***************************************************************************)
LEMMA StoreWorker ==
    ASSUME TypeOK, TypeOK', KnownBlocks, NEW w \in Workers, WorkerOK(w),
           UNCHANGED <<listVars, pollVars>>, expired \subseteq expired',
           \A b \in Written : /\ holds'[b] = holds[b] /\ b \in Written'
                              /\ store'[b] = "gone" <=> store[b] = "gone"
                              /\ b \in Copied => b \in Copied'
                              /\ b \in Marked => b \in Marked'
    PROVE  WorkerOK(w)' /\ Keeps(w)
<1>0. /\ CompactedWritten(w) /\ ChangesOK(w) /\ PollOK(w) /\ ListHolds(w) /\ PollHolds(w)
      /\ w \in Procs
    BY DEF WorkerOK, Procs
<1>1. /\ metas'[w] = metas[w] /\ compacted'[w] = compacted[w] /\ pending'[w] = pending[w]
      /\ poll'[w] = poll[w] /\ polled'[w] = polled[w]
    BY DEF listVars, pollVars
<1>2. Listed(w)' = Listed(w) /\ Polls(w)' = Polls(w)
    BY <1>1 DEF Listed, Polls, Unread
<1>3. Written \subseteq Written' /\ Marked \subseteq Written /\ Copied \subseteq Written
      /\ Readable \subseteq Written
    BY DEF Written, Marked, Copied, Readable
<1>4. Marked \subseteq Marked' /\ Copied \subseteq Copied' BY <1>3
<1>5. \A b \in Written : b \in Readable <=> b \in Readable'
    BY <1>3 DEF Written, Readable, TypeOK
<1>6. \A b \in Blocks : store[b] = "gone" => store'[b] = "gone" BY DEF Written
<1>7. pending[w].compactedRemove \subseteq Blocks BY <1>0 DEF TypeOK, Changes
<1>8. CompactedWritten(w)' BY <1>0, <1>1, <1>3 DEF CompactedWritten
<1>9. ChangesOK(w)' BY <1>0, <1>1, <1>6, <1>7 DEF ChangesOK
<1>10. PollOK(w)' BY <1>0, <1>1, <1>4 DEF PollOK
<1>11. Listed(w) \subseteq Written BY <1>0 DEF Listed, KnownBlocks, CompactedWritten
<1>12. polled[w] \cup poll[w].marked \subseteq Written BY <1>0, <1>3 DEF PollOK
<1>13. ASSUME NEW V, NEW M \in SUBSET Written, Outlives(V, M, holds, Readable, expired)
       PROVE  Outlives(V, M, holds', Readable', expired')
    BY <1>3, <1>5, <1>13, OutlivesKept
<1>14. ListHolds(w)' BY <1>0, <1>1, <1>2, <1>12, <1>13 DEF ListHolds
<1>15. \A V, s : Has(V, s, holds, Readable) => Has(V, s, holds', Readable')
    BY <1>3, <1>5 DEF Has
<1>16. \A s : Has(Listed(w), s, holds', Readable') <=> Has(Listed(w), s, holds, Readable)
    BY <1>3, <1>5, <1>11 DEF Has
<1>17. PollHolds(w)'
    <2> SUFFICES ASSUME poll[w].pc # "idle"
                 PROVE  /\ \A s \in Blocks \ expired' :
                              Has(Listed(w), s, holds', Readable')
                              => Has(Polls(w), s, holds', Readable')
                        /\ Outlives(Polls(w), polled[w] \cup poll[w].marked, holds',
                                    Readable', expired')
        BY <1>1, <1>2 DEF PollHolds
    <2>1. ASSUME NEW s \in Blocks \ expired', Has(Listed(w), s, holds', Readable')
          PROVE  Has(Polls(w), s, holds', Readable')
        BY <1>0, <1>15, <1>16, <2>1 DEF PollHolds
    <2>2. Outlives(Polls(w), polled[w] \cup poll[w].marked, holds', Readable', expired')
        BY <1>0, <1>12, <1>13 DEF PollHolds
    <2> QED BY <2>1, <2>2
<1>18. Keeps(w) BY <1>2, <1>16, FoundIsHas, FoundIsHasNext DEF Keeps
<1> QED BY <1>8, <1>9, <1>10, <1>14, <1>17, <1>18 DEF WorkerOK

(***************************************************************************)
(* A poll of the worker w, up to its results: the blocks it has or has to  *)
(* read only lose some that are gone, and a poll that gives up goes back   *)
(* to the list as it is.                                                   *)
(***************************************************************************)
LEMMA PollWorker ==
    ASSUME TypeOK, TypeOK', KnownBlocks, StoreHolds, NEW w \in Workers, WorkerOK(w),
           \/ ListBlocks(w) \/ Classify(w) \/ WriteTenantIndex(w) \/ PollFails(w)
           \/ \E b \in Blocks, comp \in BOOLEAN : pollBlock(w, b, comp)
    PROVE  WorkerOK(w)' /\ Keeps(w)
<1>0. /\ CompactedWritten(w) /\ ChangesOK(w) /\ PollOK(w) /\ ListHolds(w) /\ PollHolds(w)
      /\ w \in Procs /\ w # Scheduler
      /\ UNCHANGED <<storeVars, polled, listVars>>
    BY BlocklistAssumption
       DEF WorkerOK, Procs, ListBlocks, Classify, WriteTenantIndex, PollFails, pollBlock
<1>1. /\ Written' = Written /\ Readable' = Readable /\ Marked' = Marked /\ Copied' = Copied
      /\ holds' = holds /\ expired' = expired /\ Listed(w)' = Listed(w)
      /\ metas'[w] = metas[w] /\ compacted'[w] = compacted[w] /\ pending'[w] = pending[w]
      /\ polled'[w] = polled[w]
    BY <1>0 DEF storeVars, listVars, Written, Readable, Marked, Copied, Listed
<1>2. Keeps(w) BY <1>1, FoundIsHas, FoundIsHasNext DEF Keeps
<1>3. ChangesOK(w)' BY <1>0, <1>1 DEF ChangesOK, storeVars
<1>4. ListHolds(w)' BY <1>0, <1>1 DEF ListHolds
<1>5. ASSUME poll'[w].compacted \subseteq Written, PollOK(w)', PollHolds(w)'
      PROVE  WorkerOK(w)' /\ Keeps(w)
    <2>1. CompactedWritten(w)' BY <1>0, <1>1, <1>5 DEF CompactedWritten
    <2> QED BY <1>2, <1>3, <1>4, <1>5, <2>1 DEF WorkerOK
<1>6. ASSUME poll[w].pc # "idle", poll'[w].marked = poll[w].marked,
             \A b \in Polls(w) : b \in Readable => b \in Polls(w)'
      PROVE  PollHolds(w)'
    <2>1. Outlives(Polls(w)', polled[w] \cup poll[w].marked, holds, Readable, expired)
        BY <1>0, <1>6, OutlivesKept DEF PollHolds
    <2>2. \A s \in Blocks \ expired :
            Has(Listed(w), s, holds, Readable) => Has(Polls(w)', s, holds, Readable)
        BY <1>0, <1>6 DEF PollHolds, Has
    <2> QED BY <1>1, <1>6, <2>1, <2>2 DEF PollHolds
<1>7. CASE ListBlocks(w)
    <2>1. /\ poll'[w].pc = "listed" /\ poll'[w].metas = {b \in Blocks : HasMeta(b)}
          /\ poll'[w].compacted = {b \in Blocks : HasCompactedMeta(b)}
          /\ poll'[w].unknown = {}
          /\ poll'[w].marked = {b \in Blocks : store[b] = "compacted"}
        BY <1>0, <1>7 DEF ListBlocks, TypeOK
    <2>2. poll'[w].compacted \subseteq Written /\ poll'[w].compacted \subseteq Copied
        BY <2>1 DEF HasCompactedMeta, Written, Copied
    <2>3. poll'[w].marked \subseteq Marked BY <2>1 DEF Marked
    <2>4. PollOK(w)' BY <1>0, <1>1, <2>1, <2>2, <2>3 DEF PollOK
    <2>5. \A b \in Readable : b \in Polls(w)'
        BY <2>1 DEF Readable, Polls, HasMeta, HasCompactedMeta
    <2>6. \A s : Has(Listed(w), s, holds, Readable) => Has(Polls(w)', s, holds, Readable)
        BY <2>5 DEF Has
    <2>7. Outlives(Polls(w)', polled[w] \cup poll'[w].marked, holds, Readable, expired)
        <3> SUFFICES ASSUME NEW b \in polled[w] \cup poll'[w].marked,
                            NEW s \in holds[b] \ expired
                     PROVE  Has(Polls(w)' \ (polled[w] \cup poll'[w].marked), s, holds,
                                Readable)
            BY DEF Outlives
        <3>1. b \in Marked BY <1>0, <2>3 DEF PollOK
        <3>2. PICK o \in Blocks : HasMeta(o) /\ s \in holds[o] BY <3>1 DEF StoreHolds
        <3>3. o \in Readable /\ o \notin Marked BY <3>2 DEF HasMeta, Readable, Marked
        <3>4. o \notin polled[w] \cup poll'[w].marked BY <1>0, <2>3, <3>3 DEF PollOK
        <3> QED BY <2>5, <3>2, <3>3, <3>4 DEF Has
    <2>8. PollHolds(w)' BY <1>1, <2>6, <2>7 DEF PollHolds
    <2> QED BY <1>5, <2>2, <2>4, <2>8
<1>8. CASE Classify(w)
    <2> DEFINE new == poll[w].compacted \ (compacted[w] \cup metas[w])
    <2>1. /\ poll[w].pc = "listed" /\ poll'[w].pc = "read"
          /\ poll'[w].metas = poll[w].metas \cap metas[w]
          /\ poll'[w].compacted = poll[w].compacted \cap (compacted[w] \cup metas[w])
          /\ poll'[w].unknown = (((poll[w].metas \ metas[w]) \ new) \X {FALSE})
                                \cup (new \X {TRUE})
          /\ poll'[w].marked = poll[w].marked
        BY <1>0, <1>8 DEF Classify, TypeOK
    <2>2. poll[w].metas \subseteq Blocks /\ poll[w].compacted \subseteq Blocks
        BY <1>0 DEF TypeOK
    <2>3. poll[w].unknown = {} /\ poll[w].compacted \subseteq Copied
        BY <1>0, <2>1 DEF PollOK
    <2>4. \A b \in Blocks : /\ <<b, TRUE>> \in poll'[w].unknown <=> b \in new
                            /\ <<b, FALSE>> \in poll'[w].unknown
                               <=> b \in (poll[w].metas \ metas[w]) \ new
        BY <2>1
    <2>5. PollOK(w)' BY <1>0, <1>1, <2>1, <2>3, <2>4 DEF PollOK
    <2>6. Unread(w) = {} BY <2>3 DEF Unread
    <2>7. \A b \in poll[w].metas \cup poll[w].compacted :
            b \in poll'[w].metas \cup poll'[w].compacted \cup Unread(w)'
        BY <2>1, <2>2, <2>4 DEF Unread
    <2>8. \A b \in Polls(w) : b \in Polls(w)' BY <1>1, <2>6, <2>7 DEF Polls
    <2>9. PollHolds(w)' BY <1>6, <2>1, <2>8
    <2>10. poll'[w].compacted \subseteq Written BY <1>0, <2>1 DEF CompactedWritten
    <2> QED BY <1>5, <2>5, <2>9, <2>10
<1>9. ASSUME NEW b \in Blocks, NEW comp \in BOOLEAN, pollBlock(w, b, comp)
      PROVE  WorkerOK(w)' /\ Keeps(w)
    <2> DEFINE live == ~comp /\ HasMeta(b)
               dead == ~live /\ HasCompactedMeta(b)
    <2>1. /\ poll[w].pc = "read" /\ <<b, comp>> \in poll[w].unknown /\ poll'[w].pc = "read"
          /\ poll'[w].unknown = poll[w].unknown \ {<<b, comp>>}
          /\ poll'[w].metas = IF live THEN poll[w].metas \cup {b} ELSE poll[w].metas
          /\ poll'[w].compacted = IF dead THEN poll[w].compacted \cup {b}
                                  ELSE poll[w].compacted
          /\ poll'[w].marked = poll[w].marked
        BY <1>0, <1>9 DEF pollBlock, TypeOK
    <2>2. comp => b \in Copied BY <1>0, <2>1 DEF PollOK
    <2>3. b \in Readable => live \/ dead
        BY <2>2 DEF Readable, Copied, HasMeta, HasCompactedMeta
    <2>4. dead => b \in Written BY DEF HasCompactedMeta, Written
    <2> HIDE DEF live, dead
    <2>5. poll'[w].compacted \subseteq Written BY <1>0, <2>1, <2>4 DEF CompactedWritten
    <2>6. PollOK(w)' BY <1>0, <1>1, <2>1 DEF PollOK
    <2>7. \A c \in Unread(w) : c = b \/ c \in Unread(w)' BY <2>1 DEF Unread
    <2>8. \A c \in Polls(w) : c \in Readable => c \in Polls(w)'
        BY <1>1, <2>1, <2>3, <2>7 DEF Polls
    <2>9. PollHolds(w)' BY <1>6, <2>1, <2>8
    <2> QED BY <1>5, <2>5, <2>6, <2>9
<1>10. CASE WriteTenantIndex(w)
    <2>1. /\ poll[w].pc = "read" /\ poll'[w].pc = "apply" /\ poll[w].unknown = {}
          /\ poll'[w].metas = poll[w].metas /\ poll'[w].compacted = poll[w].compacted
          /\ poll'[w].unknown = poll[w].unknown /\ poll'[w].marked = poll[w].marked
        BY <1>0, <1>10 DEF WriteTenantIndex, TypeOK
    <2>2. PollOK(w)' BY <1>0, <1>1, <2>1 DEF PollOK
    <2>3. Polls(w)' = Polls(w) BY <1>1, <2>1 DEF Polls, Unread
    <2>4. PollHolds(w)' BY <1>6, <2>1, <2>3
    <2> QED BY <1>0, <1>5, <2>1, <2>2, <2>4 DEF CompactedWritten
<1>11. CASE PollFails(w)
    <2>1. \/ poll'[w] = NoPoll
          \/ poll'[w] = [pc |-> "apply", metas |-> metas[w], compacted |-> compacted[w],
                         unknown |-> {}, marked |-> {}]
        BY <1>0, <1>11 DEF PollFails, TypeOK
    <2>2. poll'[w].compacted \subseteq Written BY <1>0, <2>1 DEF CompactedWritten, NoPoll
    <2>3. PollOK(w)'
        <3>1. /\ poll'[w].pc # "listed" /\ poll'[w].unknown = {} /\ poll'[w].marked = {}
            BY <2>1 DEF NoPoll
        <3> QED BY <1>0, <1>1, <3>1 DEF PollOK
    <2>4. CASE poll'[w].pc = "idle" BY <1>5, <2>2, <2>3, <2>4 DEF PollHolds
    <2>5. CASE poll'[w].pc # "idle"
        <3>1. poll'[w].metas = metas[w] /\ poll'[w].compacted = compacted[w]
              /\ poll'[w].marked = {}
            BY <2>1, <2>5 DEF NoPoll
        <3>2. Listed(w) \subseteq Polls(w)' BY <3>1 DEF Listed, Polls
        <3>3. \A s : Has(Listed(w), s, holds, Readable) => Has(Polls(w)', s, holds, Readable)
            BY <3>2 DEF Has
        <3>4. Outlives(Polls(w)', polled[w], holds, Readable, expired)
            BY <1>0, <3>2, OutlivesKept DEF ListHolds
        <3>5. polled[w] \cup poll'[w].marked = polled[w] BY <3>1
        <3>6. PollHolds(w)' BY <1>1, <3>3, <3>4, <3>5 DEF PollHolds
        <3> QED BY <1>5, <2>2, <2>3, <3>6
    <2> QED BY <2>4, <2>5
<1> QED BY <1>7, <1>8, <1>9, <1>10, <1>11

(***************************************************************************)
(* ApplyPollResults: a readable block that was polled or is among the      *)
(* changes since is in the new list, as a live or as a compacted one.      *)
(***************************************************************************)
LEMMA ApplyWorker ==
    ASSUME TypeOK, TypeOK', KnownBlocks, NEW w \in Workers, WorkerOK(w), ApplyPollResults(w)
    PROVE  WorkerOK(w)' /\ Keeps(w)
<1>0. /\ CompactedWritten(w) /\ ChangesOK(w) /\ PollOK(w) /\ PollHolds(w)
      /\ w \in Procs /\ poll[w].pc = "apply" /\ pending[w] \in Changes
    BY DEF WorkerOK, Procs, ApplyPollResults, TypeOK
<1>1. /\ Written' = Written /\ Readable' = Readable /\ Marked' = Marked /\ Copied' = Copied
      /\ holds' = holds /\ expired' = expired /\ store' = store
    BY DEF ApplyPollResults, storeVars, Written, Readable, Marked, Copied
<1>2. /\ metas'[w] = UpdatedMetas(poll[w].metas, pending[w])
      /\ compacted'[w] = UpdatedCompacted(poll[w].compacted, pending[w])
      /\ pending'[w] = NoChange /\ poll'[w] = NoPoll
      /\ polled'[w] = polled[w] \cup poll[w].marked
    BY <1>0 DEF ApplyPollResults, TypeOK
<1>3. CompactedWritten(w)'
    BY <1>0, <1>1, <1>2 DEF CompactedWritten, UpdatedCompacted, NoChange, NoPoll
<1>4. ChangesOK(w)' BY <1>2 DEF ChangesOK, NoChange
<1>5. PollOK(w)' BY <1>0, <1>1, <1>2 DEF PollOK, NoPoll
<1>6. PollHolds(w)' BY <1>2 DEF PollHolds, NoPoll
<1>7. Unread(w) = {} BY <1>0 DEF PollOK, Unread
<1>8. ASSUME NEW b \in Polls(w), b \in Readable PROVE b \in Listed(w)'
    <2>1. b \notin pending[w].compactedRemove BY <1>0, <1>8 DEF ChangesOK, Readable
    <2>2. b \in pending[w].remove => b \in pending[w].compactedAdd BY <1>0 DEF ChangesOK
    <2> QED BY <1>2, <1>7, <1>8, <2>1, <2>2 DEF Polls, Listed, UpdatedMetas, UpdatedCompacted
<1>9. ListHolds(w)'
    <2>1. Outlives(Listed(w)', polled[w] \cup poll[w].marked, holds, Readable, expired)
        BY <1>0, <1>8, OutlivesKept DEF PollHolds
    <2> QED BY <1>1, <1>2, <2>1 DEF ListHolds
<1>10. \A s \in Blocks \ expired :
          Has(Listed(w), s, holds, Readable) => Has(Listed(w)', s, holds', Readable')
    BY <1>0, <1>1, <1>8 DEF PollHolds, Has
<1>11. Keeps(w) BY <1>10, FoundIsHas, FoundIsHasNext DEF Keeps
<1> QED BY <1>3, <1>4, <1>5, <1>6, <1>9, <1>11 DEF WorkerOK

(***************************************************************************)
(* A change of a worker's list that removes a live block only to add it as *)
(* a compacted one keeps every block in the list, and in what the poll     *)
(* under way leaves of it.                                                 *)
(***************************************************************************)
LEMMA UpdateWorker ==
    ASSUME TypeOK, TypeOK', NEW w \in Workers, WorkerOK(w),
           UNCHANGED <<store, holds, expired, poll, polled>>,
           NEW u \in Changes, Update(w, u), u.remove \subseteq u.compactedAdd,
           u.compactedAdd \subseteq Written, u.compactedRemove = {}
    PROVE  WorkerOK(w)' /\ Keeps(w)
<1>0. /\ CompactedWritten(w) /\ ChangesOK(w) /\ PollOK(w) /\ ListHolds(w) /\ PollHolds(w)
      /\ w \in Procs
    BY DEF WorkerOK, Procs
<1>1. /\ metas'[w] = UpdatedMetas(metas[w], u)
      /\ compacted'[w] = UpdatedCompacted(compacted[w], u)
      /\ pending'[w] = Merge(pending[w], u)
    BY <1>0 DEF Update, TypeOK
<1>2. /\ pending'[w].add = pending[w].add \cup u.add
      /\ pending'[w].remove = pending[w].remove \cup u.remove
      /\ pending'[w].compactedAdd = pending[w].compactedAdd \cup u.compactedAdd
      /\ pending'[w].compactedRemove = pending[w].compactedRemove \cup u.compactedRemove
    BY <1>1 DEF Merge
<1>3. Written' = Written /\ Readable' = Readable /\ Marked' = Marked /\ Copied' = Copied
    BY DEF Written, Readable, Marked, Copied
<1>4. CompactedWritten(w)'
    BY <1>0, <1>1, <1>2, <1>3 DEF CompactedWritten, UpdatedCompacted
<1>5. ChangesOK(w)' BY <1>0, <1>2 DEF ChangesOK
<1>6. PollOK(w)' BY <1>0, <1>3 DEF PollOK
<1>7. /\ Listed(w) \subseteq Listed(w)'
      /\ Listed(w)' \subseteq (Listed(w) \cup u.add \cup u.compactedAdd)
    BY <1>1 DEF Listed, UpdatedMetas, UpdatedCompacted
<1>8. Polls(w)' = Polls(w) \cup u.add \cup u.compactedAdd BY <1>2 DEF Polls, Unread
<1>9. ListHolds(w)'
    <2>1. Outlives(Listed(w)', polled[w], holds, Readable, expired)
        BY <1>0, <1>7, OutlivesKept DEF ListHolds
    <2> QED BY <1>3, <2>1 DEF ListHolds
<1>10. ASSUME poll[w].pc # "idle"
       PROVE  /\ \A s \in Blocks \ expired : Has(Listed(w)', s, holds, Readable)
                                             => Has(Polls(w)', s, holds, Readable)
              /\ Outlives(Polls(w)', polled[w] \cup poll[w].marked, holds, Readable, expired)
    <2>1. ASSUME NEW s \in Blocks \ expired, Has(Listed(w)', s, holds, Readable)
          PROVE  Has(Polls(w)', s, holds, Readable)
        <3>1. PICK b \in Listed(w)' : b \in Readable /\ s \in holds[b] BY <2>1 DEF Has
        <3>2. CASE b \in Listed(w)
            <4>1. Has(Polls(w), s, holds, Readable)
                BY <1>0, <1>10, <3>1, <3>2 DEF PollHolds, Has
            <4> QED BY <1>8, <4>1 DEF Has
        <3>3. CASE b \in u.add \cup u.compactedAdd BY <1>8, <3>1, <3>3 DEF Has
        <3> QED BY <1>7, <3>2, <3>3
    <2>2. Outlives(Polls(w)', polled[w] \cup poll[w].marked, holds, Readable, expired)
        BY <1>0, <1>8, <1>10, OutlivesKept DEF PollHolds
    <2> QED BY <2>1, <2>2
<1>11. PollHolds(w)' BY <1>3, <1>10 DEF PollHolds
<1>12. Keeps(w) BY <1>3, <1>7, FoundIsHas, FoundIsHasNext DEF Keeps, Has
<1> QED BY <1>4, <1>5, <1>6, <1>9, <1>11, <1>12 DEF WorkerOK

(***************************************************************************)
(* ClearBlock: the block has been polled as marked by every worker, so     *)
(* their lists, and what a poll under way leaves of them, outlive it.      *)
(***************************************************************************)
LEMMA ClearWorker ==
    ASSUME TypeOK, TypeOK', KnownBlocks, NEW w \in Workers, WorkerOK(w),
           NEW v \in Workers, NEW c \in Blocks, ClearBlock(v, c)
    PROVE  WorkerOK(w)' /\ Keeps(w)
<1> DEFINE u == [NoChange EXCEPT !.compactedRemove = {c}]
<1>0. /\ CompactedWritten(w) /\ ChangesOK(w) /\ PollOK(w) /\ ListHolds(w) /\ PollHolds(w)
      /\ w \in Procs /\ v \in Procs
      /\ store[c] = "compacted" /\ store' = [store EXCEPT ![c] = "gone"] /\ c \in polled[w]
      /\ Update(v, u) /\ UNCHANGED <<holds, expired, poll, polled>>
    BY DEF WorkerOK, Procs, ClearBlock, pollVars
<1>1. /\ u.add = {} /\ u.remove = {} /\ u.compactedAdd = {} /\ u.compactedRemove = {c}
    BY DEF NoChange
<1> HIDE DEF u
<1>2. /\ store'[c] = "gone" /\ \A b \in Blocks \ {c} : store'[b] = store[b]
    BY <1>0 DEF TypeOK
<1>3. /\ Readable' = Readable \ {c} /\ Written' = Written /\ Marked' = Marked
      /\ Copied' = Copied
    BY <1>0, <1>2 DEF Readable, Written, Marked, Copied
<1>4. /\ metas'[w] = metas[w]
      /\ compacted'[w] = compacted[w] \/ compacted'[w] = compacted[w] \ {c}
      /\ pending'[w].add = pending[w].add /\ pending'[w].remove = pending[w].remove
      /\ pending'[w].compactedAdd = pending[w].compactedAdd
      /\ pending'[w].compactedRemove \subseteq pending[w].compactedRemove \cup {c}
    <2>1. CASE w = v
        BY <1>0, <1>1, <2>1 DEF Update, UpdatedMetas, UpdatedCompacted, Merge, TypeOK
    <2>2. CASE w # v BY <1>0, <2>2 DEF Update, TypeOK
    <2> QED BY <2>1, <2>2
<1>5. Polls(w)' = Polls(w) BY <1>0, <1>4 DEF Polls, Unread
<1>6. /\ Listed(w)' \subseteq Listed(w)
      /\ \A b \in Listed(w) : b # c => b \in Listed(w)'
    BY <1>4 DEF Listed
<1>7. CompactedWritten(w)' BY <1>0, <1>3, <1>4 DEF CompactedWritten
<1>8. ChangesOK(w)'
    <2>1. \A b \in pending[w].compactedRemove : b \in Blocks BY <1>0 DEF TypeOK, Changes
    <2> QED BY <1>0, <1>2, <1>4, <2>1 DEF ChangesOK
<1>9. PollOK(w)' BY <1>0, <1>3 DEF PollOK
<1>10. ListHolds(w)'
    <2>1. Outlives(Listed(w)', polled[w], holds, Readable', expired)
        BY <1>0, <1>3, <1>6, OutlivesKept DEF ListHolds
    <2> QED BY <1>0, <2>1 DEF ListHolds
<1>11. ASSUME NEW V, NEW M, c \in M, NEW s \in Blocks \ expired,
              Outlives(V, M, holds, Readable, expired), Has(V, s, holds, Readable)
       PROVE  \E b \in V : b # c /\ b \in Readable' /\ s \in holds[b]
    <2>1. PICK b \in V : b \in Readable /\ s \in holds[b] BY <1>11 DEF Has
    <2>2. CASE b # c BY <1>3, <2>1, <2>2
    <2>3. CASE b = c
        <3>1. Has(V \ M, s, holds, Readable) BY <1>11, <2>1, <2>3 DEF Outlives
        <3> QED BY <1>3, <1>11, <3>1 DEF Has
    <2> QED BY <2>2, <2>3
<1>12. \A s \in Blocks \ expired :
          Has(Listed(w), s, holds, Readable) => Has(Listed(w)', s, holds, Readable')
    <2> SUFFICES ASSUME NEW s \in Blocks \ expired, Has(Listed(w), s, holds, Readable)
                 PROVE  Has(Listed(w)', s, holds, Readable')
        OBVIOUS
    <2>1. \E b \in Listed(w) : b # c /\ b \in Readable' /\ s \in holds[b]
        BY <1>0, <1>11 DEF ListHolds
    <2> QED BY <1>6, <2>1 DEF Has
<1>13. ASSUME poll[w].pc # "idle"
       PROVE  /\ \A s \in Blocks \ expired : Has(Listed(w)', s, holds, Readable')
                                             => Has(Polls(w), s, holds, Readable')
              /\ Outlives(Polls(w), polled[w] \cup poll[w].marked, holds, Readable', expired)
    <2>1. ASSUME NEW s \in Blocks \ expired, Has(Listed(w)', s, holds, Readable')
          PROVE  Has(Polls(w), s, holds, Readable')
        <3>1. Has(Listed(w), s, holds, Readable) BY <1>3, <1>6, <2>1 DEF Has
        <3>2. Has(Polls(w), s, holds, Readable) BY <1>0, <1>13, <3>1 DEF PollHolds
        <3>3. c \in polled[w] \cup poll[w].marked BY <1>0
        <3>4. \E b \in Polls(w) : b # c /\ b \in Readable' /\ s \in holds[b]
            BY <1>0, <1>11, <1>13, <3>2, <3>3 DEF PollHolds
        <3> QED BY <3>4 DEF Has
    <2>2. Outlives(Polls(w), polled[w] \cup poll[w].marked, holds, Readable', expired)
        BY <1>0, <1>3, <1>13, OutlivesKept DEF PollHolds
    <2> QED BY <2>1, <2>2
<1>14. PollHolds(w)' BY <1>0, <1>5, <1>13 DEF PollHolds
<1>15. Keeps(w) BY <1>0, <1>12, FoundIsHas, FoundIsHasNext DEF Keeps
<1> QED BY <1>7, <1>8, <1>9, <1>10, <1>14, <1>15 DEF WorkerOK

(***************************************************************************)
(* Polling keeps the invariant and hides nothing.                          *)
(***************************************************************************)
LEMMA PollHides ==
    ASSUME TypeOK, TypeOK', KnownBlocks, KeepInv, NEW p \in Procs, PollStep(p) \/ PollFails(p)
    PROVE  KeepInv' /\ \A w \in Workers : Keeps(w)
<1>0. /\ UNCHANGED <<store, holds, expired, job>>
      /\ \A q \in Procs \ {p} : /\ metas'[q] = metas[q] /\ compacted'[q] = compacted[q]
                                /\ pending'[q] = pending[q] /\ poll'[q] = poll[q]
                                /\ polled'[q] = polled[q]
    <2>1. CASE ApplyPollResults(p)
        BY <2>1 DEF ApplyPollResults, storeVars, TypeOK
    <2>2. CASE ~ApplyPollResults(p)
        <3>1. /\ UNCHANGED <<storeVars, polled, listVars, job>>
              /\ \A q \in Procs \ {p} : poll'[q] = poll[q]
            <4>1. CASE p = Scheduler /\ TenantIndex BY <4>1 DEF TenantIndex, TypeOK
            <4>2. CASE ListBlocks(p) BY <4>2 DEF ListBlocks, TypeOK
            <4>3. CASE Classify(p) BY <4>3 DEF Classify, TypeOK
            <4>4. CASE WriteTenantIndex(p) BY <4>4 DEF WriteTenantIndex, TypeOK
            <4>5. CASE \E b \in Blocks, comp \in BOOLEAN : pollBlock(p, b, comp)
                BY <4>5 DEF pollBlock, TypeOK
            <4>6. CASE PollFails(p) BY <4>6 DEF PollFails, TypeOK
            <4> QED BY <2>2, <4>1, <4>2, <4>3, <4>4, <4>5, <4>6 DEF PollStep
        <3> QED BY <3>1 DEF storeVars, listVars
    <2> QED BY <2>1, <2>2
<1>1. OutputHolds' BY <1>0 DEF KeepInv, OutputHolds
<1>2. StoreHolds' BY <1>0 DEF KeepInv, StoreHolds, Marked, HasMeta
<1>3. ASSUME NEW w \in Workers PROVE WorkerOK(w)' /\ Keeps(w)
    <2>0. w \in Procs /\ WorkerOK(w) /\ w # Scheduler
        BY BlocklistAssumption DEF Procs, KeepInv
    <2>1. CASE w # p BY <1>0, <2>0, <2>1, OtherWorker
    <2>2. CASE w = p
        <3>1. \/ ListBlocks(w) \/ Classify(w) \/ WriteTenantIndex(w) \/ PollFails(w)
              \/ \E b \in Blocks, comp \in BOOLEAN : pollBlock(w, b, comp)
              \/ ApplyPollResults(w)
            BY <2>0, <2>2 DEF PollStep
        <3> QED BY <2>0, <3>1, PollWorker, ApplyWorker DEF KeepInv
    <2> QED BY <2>1, <2>2
<1> QED BY <1>1, <1>2, <1>3 DEF KeepInv

(***************************************************************************)
(* Marking keeps the invariant and hides nothing: what an input that loses *)
(* its meta.json holds is in the output or has been given up.              *)
(***************************************************************************)
LEMMA MarkHides ==
    ASSUME BlocklistInv, TypeOK', KeepInv, MarkStep \/ ReportLost
    PROVE  KeepInv' /\ \A w \in Workers : Keeps(w)
<1>0. /\ TypeOK /\ KnownBlocks /\ JobOK /\ OutputHolds /\ StoreHolds
      /\ \A w \in Workers : w \in Procs /\ WorkerOK(w) /\ w # Scheduler
    BY BlocklistAssumption DEF BlocklistInv, KeepInv, Procs
<1>1. ASSUME UNCHANGED <<store, holds, expired>>, OutputHolds',
             \A w \in Workers : WorkerOK(w)' /\ Keeps(w)
      PROVE  KeepInv' /\ \A w \in Workers : Keeps(w)
    <2>1. StoreHolds' BY <1>0, <1>1 DEF StoreHolds, Marked, HasMeta
    <2> QED BY <1>1, <2>1 DEF KeepInv
<1>2. ASSUME UNCHANGED <<store, holds, expired, listVars, pollVars>>, OutputHolds'
      PROVE  KeepInv' /\ \A w \in Workers : Keeps(w)
    <2>1. \A w \in Workers : WorkerOK(w)' /\ Keeps(w)
        BY <1>0, <1>2, OtherWorker DEF listVars, pollVars
    <2> QED BY <1>1, <1>2, <2>1
<1>3. ASSUME NEW b \in Blocks, CopyMeta(b) \/ RemoveMeta(b)
      PROVE  KeepInv' /\ \A w \in Workers : Keeps(w)
    <2>1. /\ \/ store[b] = "live" /\ store' = [store EXCEPT ![b] = "both"]
             \/ store[b] = "both" /\ store' = [store EXCEPT ![b] = "compacted"]
          /\ UNCHANGED <<holds, expired, listVars, pollVars>>
          /\ job.pc = "mark" /\ b \in job.todo
          /\ job' = job \/ job' = [job EXCEPT !.todo = @ \ {b}]
        BY <1>3 DEF CopyMeta, RemoveMeta
    <2>2. /\ \A c \in Blocks \ {b} : store'[c] = store[c]
          /\ \/ store[b] = "live" /\ store'[b] = "both"
             \/ store[b] = "both" /\ store'[b] = "compacted"
        BY <1>0, <2>1 DEF TypeOK
    <2>3. job'.pc = "mark" /\ job'.ins = job.ins /\ job'.out = job.out
        BY <1>0, <2>1 DEF TypeOK
    <2>4. OutputHolds' BY <1>0, <2>1, <2>3 DEF OutputHolds
    <2>5. \A c \in Written : /\ holds'[c] = holds[c] /\ c \in Written'
                             /\ store'[c] = "gone" <=> store[c] = "gone"
                             /\ c \in Copied => c \in Copied'
                             /\ c \in Marked => c \in Marked'
        BY <2>1, <2>2 DEF Written, Copied, Marked
    <2>6. \A w \in Workers : WorkerOK(w)' /\ Keeps(w)
        BY <1>0, <2>1, <2>5, StoreWorker
    <2>7. StoreHolds'
        <3> SUFFICES ASSUME NEW c \in Marked', NEW s \in holds[c] \ expired
                     PROVE  \E o \in Blocks : HasMeta(o)' /\ s \in holds[o]
            BY <2>1 DEF StoreHolds
        <3>1. ASSUME s \in holds[b] PROVE \E o \in Blocks : HasMeta(o)' /\ s \in holds[o]
            <4>1. job.out # NoBlock /\ s \in holds[job.out]
                BY <1>0, <2>1, <3>1 DEF OutputHolds, JobOK
            <4>2. PICK o \in Blocks : o = job.out /\ o # b /\ store[o] = "live"
                BY <1>0, <2>1, <4>1 DEF JobOK, TypeOK
            <4>3. HasMeta(o)' BY <2>2, <4>2 DEF HasMeta
            <4> QED BY <4>1, <4>2, <4>3
        <3>2. CASE c = b BY <3>1, <3>2
        <3>3. CASE c # b
            <4>1. c \in Marked BY <2>2, <3>3 DEF Marked
            <4>2. PICK o \in Blocks : HasMeta(o) /\ s \in holds[o]
                BY <1>0, <4>1 DEF StoreHolds
            <4>3. o # b => HasMeta(o)' BY <2>2, <4>2 DEF HasMeta
            <4> QED BY <3>1, <4>2, <4>3
        <3> QED BY <3>2, <3>3
    <2> QED BY <2>4, <2>6, <2>7 DEF KeepInv
<1>4. ASSUME NEW b \in Blocks, MarkFails(b) PROVE KeepInv' /\ \A w \in Workers : Keeps(w)
    <2>1. /\ UNCHANGED <<store, holds, expired, listVars, pollVars>> /\ job.pc = "mark"
          /\ job' = [job EXCEPT !.todo = @ \ {b}, !.err = TRUE]
        BY <1>4 DEF MarkFails, storeVars
    <2>2. job'.ins = job.ins /\ job'.out = job.out BY <1>0, <2>1 DEF TypeOK
    <2>3. OutputHolds' BY <1>0, <2>1, <2>2 DEF OutputHolds
    <2> QED BY <1>2, <2>1, <2>3
<1>5. CASE markCompacted
    <2> DEFINE u == [add |-> {job.out} \ {NoBlock}, remove |-> job.ins,
                     compactedAdd |-> job.ins, compactedRemove |-> {}]
    <2>1. job.pc = "mark" /\ UNCHANGED <<store, holds, expired, poll, polled>>
        BY <1>5 DEF markCompacted, pollVars
    <2>2. OutputHolds'
        <3>1. job'.pc # "mark" BY <1>0, <1>5 DEF markCompacted, NoJob, TypeOK
        <3> QED BY <3>1 DEF OutputHolds
    <2>3. CASE UNCHANGED listVars BY <1>2, <2>1, <2>2, <2>3 DEF pollVars
    <2>4. CASE Update(job.by, u)
        <3>1. u \in Changes /\ job.by \in Workers /\ job.by \in Procs
            BY <1>0, <2>1 DEF Changes, TypeOK, JobOK
        <3>2. /\ u.remove = job.ins /\ u.compactedAdd = job.ins /\ u.compactedRemove = {}
              /\ job.ins \subseteq Written
            BY <1>0, <2>1 DEF JobOK
        <3> HIDE DEF u
        <3>3. ASSUME NEW w \in Workers PROVE WorkerOK(w)' /\ Keeps(w)
            <4>1. CASE w = job.by BY <1>0, <2>1, <2>4, <3>1, <3>2, <4>1, UpdateWorker
            <4>2. CASE w # job.by
                <5>1. /\ metas'[w] = metas[w] /\ compacted'[w] = compacted[w]
                      /\ pending'[w] = pending[w]
                    BY <1>0, <2>4, <4>2 DEF Update, TypeOK
                <5> QED BY <1>0, <2>1, <5>1, OtherWorker
            <4> QED BY <4>1, <4>2
        <3> QED BY <1>1, <2>1, <2>2, <3>3
    <2> QED BY <1>5, <2>3, <2>4 DEF markCompacted, listVars
<1>6. CASE applyJobsToBlocklist
    <2>1. /\ UNCHANGED <<store, holds, expired, poll, polled>> /\ job' = NoJob
          /\ \A w \in Workers : /\ metas'[w] = metas[w] /\ compacted'[w] = compacted[w]
                                /\ pending'[w] = pending[w]
        BY <1>0, <1>6 DEF applyJobsToBlocklist, Update, storeVars, pollVars, TypeOK
    <2>2. OutputHolds' BY <2>1 DEF OutputHolds, NoJob
    <2>3. \A w \in Workers : WorkerOK(w)' /\ Keeps(w) BY <1>0, <2>1, OtherWorker
    <2> QED BY <1>1, <2>1, <2>2, <2>3
<1>7. CASE ReportLost
    <2>1. UNCHANGED <<store, holds, expired, listVars, pollVars>> /\ job' = NoJob
        BY <1>7 DEF ReportLost, storeVars
    <2>2. OutputHolds' BY <2>1 DEF OutputHolds, NoJob
    <2> QED BY <1>2, <2>1, <2>2
<1> QED BY <1>3, <1>4, <1>5, <1>6, <1>7 DEF MarkStep

(***************************************************************************)
(* Starting a job, clearing a block and the steps of the block-builder     *)
(* keep the invariant and hide nothing.                                    *)
(***************************************************************************)
LEMMA StartHides ==
    ASSUME BlocklistInv, TypeOK', KeepInv,
           StartJob \/ \E b \in Blocks : WriteBlock(b) \/ AllowCompaction(b)
    PROVE  KeepInv' /\ \A w \in Workers : Keeps(w)
<1>0. /\ TypeOK /\ KnownBlocks /\ JobOK /\ OutputHolds /\ StoreHolds
      /\ \A w \in Workers : w \in Procs /\ WorkerOK(w)
    BY DEF BlocklistInv, KeepInv, Procs
<1>1. ASSUME NEW o \in Blocks, store[o] = "none", NEW h \in SUBSET Blocks,
             store' = [store EXCEPT ![o] = "live"], holds' = [holds EXCEPT ![o] = h],
             UNCHANGED <<expired, listVars, pollVars>>
      PROVE  /\ StoreHolds' /\ \A w \in Workers : WorkerOK(w)' /\ Keeps(w)
             /\ \A b \in Blocks \ {o} : store'[b] = store[b] /\ holds'[b] = holds[b]
             /\ holds'[o] = h
    <2>1. /\ \A b \in Blocks \ {o} : store'[b] = store[b] /\ holds'[b] = holds[b]
          /\ store'[o] = "live" /\ holds'[o] = h
        BY <1>0, <1>1 DEF TypeOK
    <2>2. \A b \in Written : /\ holds'[b] = holds[b] /\ b \in Written'
                             /\ store'[b] = "gone" <=> store[b] = "gone"
                             /\ b \in Copied => b \in Copied'
                             /\ b \in Marked => b \in Marked'
        BY <1>1, <2>1 DEF Written, Copied, Marked
    <2>3. \A w \in Workers : WorkerOK(w)' /\ Keeps(w)
        BY <1>0, <1>1, <2>2, StoreWorker
    <2>4. StoreHolds'
        <3> SUFFICES ASSUME NEW b \in Marked', NEW s \in holds'[b] \ expired'
                     PROVE  \E c \in Blocks : HasMeta(c)' /\ s \in holds'[c]
            BY DEF StoreHolds
        <3>1. b \in Marked /\ s \in holds[b] \ expired BY <1>1, <2>1 DEF Marked
        <3>2. PICK c \in Blocks : HasMeta(c) /\ s \in holds[c] BY <1>0, <3>1 DEF StoreHolds
        <3>3. c # o BY <1>1, <3>2 DEF HasMeta
        <3> QED BY <2>1, <3>2, <3>3 DEF HasMeta
    <2> QED BY <2>1, <2>3, <2>4
<1>2. ASSUME NEW w \in Workers, NEW S \in SUBSET metas[Scheduler], NEW o \in Blocks,
             Compact(w, S, o)
      PROVE  KeepInv' /\ \A v \in Workers : Keeps(v)
    <2> DEFINE h == UNION {holds[b] : b \in S}
    <2>1. S \in SUBSET Blocks BY <1>0 DEF TypeOK, Procs
    <2>2. h \in SUBSET Blocks BY <1>0, <2>1 DEF TypeOK
    <2>3. /\ store[o] = "none" /\ store' = [store EXCEPT ![o] = "live"]
          /\ holds' = [holds EXCEPT ![o] = h]
          /\ UNCHANGED <<expired, listVars, pollVars>>
          /\ job'.ins = S /\ job'.out = o
        BY <1>2 DEF Compact
    <2>4. \A b \in S : holds[b] \subseteq h OBVIOUS
    <2> HIDE DEF h
    <2>5. /\ StoreHolds' /\ \A v \in Workers : WorkerOK(v)' /\ Keeps(v)
          /\ \A b \in Blocks \ {o} : store'[b] = store[b] /\ holds'[b] = holds[b]
          /\ holds'[o] = h
        BY <1>1, <2>2, <2>3
    <2>6. o \notin S BY <1>0, <2>3 DEF KnownBlocks, Written, Procs
    <2>7. o # NoBlock BY BlocklistAssumption
    <2>8. OutputHolds' BY <2>1, <2>3, <2>4, <2>5, <2>6, <2>7 DEF OutputHolds
    <2> QED BY <2>5, <2>8 DEF KeepInv
<1>3. ASSUME NEW w \in Workers, NEW b \in Blocks, Retain(w, b)
      PROVE  KeepInv' /\ \A v \in Workers : Keeps(v)
    <2>1. /\ UNCHANGED <<store, holds, listVars, pollVars>>
          /\ expired' = expired \cup holds[b] /\ job'.ins = {b}
        BY <1>3 DEF Retain
    <2>2. OutputHolds' BY <2>1 DEF OutputHolds
    <2>3. StoreHolds' BY <1>0, <2>1 DEF StoreHolds, Marked, HasMeta
    <2>4. \A c \in Written : /\ holds'[c] = holds[c] /\ c \in Written'
                             /\ store'[c] = "gone" <=> store[c] = "gone"
                             /\ c \in Copied => c \in Copied'
                             /\ c \in Marked => c \in Marked'
        BY <2>1 DEF Written, Copied, Marked
    <2>5. \A v \in Workers : WorkerOK(v)' /\ Keeps(v) BY <1>0, <2>1, <2>4, StoreWorker
    <2> QED BY <2>2, <2>3, <2>5 DEF KeepInv
<1>4. ASSUME NEW w \in Workers, NEW b \in Blocks, ClearBlock(w, b)
      PROVE  KeepInv' /\ \A v \in Workers : Keeps(v)
    <2>1. /\ job.pc = "idle" /\ UNCHANGED <<holds, expired, job>> /\ store[b] = "compacted"
          /\ store' = [store EXCEPT ![b] = "gone"]
        BY <1>4 DEF ClearBlock
    <2>2. OutputHolds' BY <2>1 DEF OutputHolds
    <2>3. Marked' = Marked /\ \A o \in Blocks : HasMeta(o) => HasMeta(o)'
        BY <1>0, <2>1 DEF Marked, HasMeta, TypeOK
    <2>4. StoreHolds' BY <1>0, <2>1, <2>3 DEF StoreHolds
    <2>5. \A v \in Workers : WorkerOK(v)' /\ Keeps(v) BY <1>0, <1>4, ClearWorker
    <2> QED BY <2>2, <2>4, <2>5 DEF KeepInv
<1>5. ASSUME NEW b \in Blocks, WriteBlock(b) PROVE KeepInv' /\ \A w \in Workers : Keeps(w)
    <2>1. /\ store[b] = "none" /\ store' = [store EXCEPT ![b] = "live"]
          /\ holds' = [holds EXCEPT ![b] = {b}]
          /\ UNCHANGED <<expired, listVars, pollVars, job>>
        BY <1>5 DEF WriteBlock
    <2>2. /\ StoreHolds' /\ \A w \in Workers : WorkerOK(w)' /\ Keeps(w)
          /\ \A c \in Blocks \ {b} : store'[c] = store[c] /\ holds'[c] = holds[c]
        <3>1. {b} \in SUBSET Blocks OBVIOUS
        <3> QED BY <1>1, <2>1, <3>1
    <2>3. OutputHolds'
        <3> SUFFICES ASSUME job.pc = "mark", NEW c \in job.ins, NEW s \in holds'[c] \ expired
                     PROVE  job.out # NoBlock /\ s \in holds'[job.out]
            BY <2>1 DEF OutputHolds
        <3>1. c \in Blocks \ {b} BY <1>0, <2>1 DEF JobOK, Written
        <3>2. job.out # NoBlock /\ s \in holds[job.out] BY <1>0, <2>2, <3>1 DEF OutputHolds
        <3>3. job.out \in Blocks \ {b} BY <1>0, <2>1, <3>2 DEF JobOK, TypeOK
        <3> QED BY <2>2, <3>2, <3>3
    <2> QED BY <2>2, <2>3 DEF KeepInv
<1>6. ASSUME NEW b \in Blocks, AllowCompaction(b)
      PROVE  KeepInv' /\ \A w \in Workers : Keeps(w)
    <2>1. UNCHANGED <<store, holds, expired, listVars, pollVars, job>>
        BY <1>6 DEF AllowCompaction
    <2>2. OutputHolds' /\ StoreHolds'
        BY <1>0, <2>1 DEF OutputHolds, StoreHolds, Marked, HasMeta
    <2>3. \A w \in Workers : WorkerOK(w)' /\ Keeps(w)
        BY <1>0, <2>1, OtherWorker DEF listVars, pollVars
    <2> QED BY <2>2, <2>3 DEF KeepInv
<1> QED BY <1>2, <1>3, <1>4, <1>5, <1>6 DEF StartJob

(***************************************************************************)
(* Every step keeps both invariants and hides nothing.                     *)
(***************************************************************************)
LEMMA KeepStep ==
    ASSUME BlocklistInv, KeepInv, [Next]_vars
    PROVE  KeepInv' /\ \A w \in Workers : Keeps(w)
<1>1. TypeOK /\ TypeOK' /\ KnownBlocks BY TypeStep DEF BlocklistInv
<1>2. CASE \E p \in Procs : PollStep(p) \/ PollFails(p) BY <1>1, <1>2, PollHides
<1>3. CASE MarkStep \/ ReportLost BY <1>1, <1>3, MarkHides
<1>4. CASE StartJob \/ \E b \in Blocks : WriteBlock(b) \/ AllowCompaction(b)
    BY <1>1, <1>4, StartHides
<1>5. CASE UNCHANGED vars
    <2>1. UNCHANGED <<store, holds, expired, job, metas, compacted, pending, poll, polled>>
        BY <1>5 DEF vars, storeVars, listVars, pollVars
    <2>2. OutputHolds' /\ StoreHolds'
        BY <2>1 DEF KeepInv, OutputHolds, StoreHolds, Marked, HasMeta
    <2>3. \A w \in Workers : WorkerOK(w)' /\ Keeps(w) BY <2>1, OtherWorker DEF KeepInv
    <2> QED BY <2>2, <2>3 DEF KeepInv
<1> QED BY <1>2, <1>3, <1>4, <1>5 DEF Next

(***************************************************************************)
(* Compactions, retention, clears and polls, with the failures in between, *)
(* hide no traces from a query through a worker's list before retention    *)
(* has given them up: every step satisfies NothingHidden.                  *)
(***************************************************************************)
THEOREM BlocklistNothingHidden == Spec => NothingHidden
<1>1. Init => BlocklistInv /\ KeepInv BY InvInit, KeepInit
<1>2. BlocklistInv /\ KeepInv /\ [Next]_vars => (BlocklistInv /\ KeepInv)'
    BY InvStep, KeepStep
<1>3. BlocklistInv /\ KeepInv /\ [Next]_vars
      => [\A w \in Workers, s \in Blocks :
            Found(w, s) /\ s \notin expired => Found(w, s)']_vars
    BY KeepStep DEF Keeps
<1> QED BY <1>1, <1>2, <1>3, PTL DEF Spec, NothingHidden
=============================================================================
