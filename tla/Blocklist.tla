----------------------------- MODULE Blocklist -----------------------------
(***************************************************************************)
(* The blocklist of a tenant (tempodb/blocklist) in the processes that     *)
(* poll it: the workers list the object store and write the tenant index,  *)
(* the scheduler reads the index and polls by itself when it cannot.       *)
(* Between two polls a compaction or the retention changes the store and   *)
(* then the list of its own process (List.Update), and the worker's report *)
(* changes the scheduler's; ApplyPollResults puts such changes on top of   *)
(* the poll they overlap with.                                             *)
(*                                                                         *)
(* A list is a set of block IDs: the order and the times of its entries    *)
(* are left out, and so is deleteTenant.                                   *)
(***************************************************************************)
EXTENDS Integers, FiniteSets

CONSTANTS Blocks,          \* block IDs
          Workers,         \* backend-workers that own the tenant
          Scheduler,       \* the backend-scheduler
          NoBlock,         \* no output: a job of the retention
          MaxFaults        \* bound: I/O errors and lost reports

ASSUME BlocklistAssumption == /\ Scheduler \notin Workers
                              /\ NoBlock \notin Blocks
                              /\ MaxFaults \in Nat

VARIABLES store,           \* meta.json, meta.compacted.json or both of a block
          holds,           \* the flushed sections whose traces a block holds
          flagged,         \* blocks with nocompact.flg
          expired,         \* sections that retention has given up
          taken,           \* per worker: marked blocks its jobs took out of its list
          polled,          \* per process: blocks marked before its last poll began
          index,           \* the tenant index: [there, metas, compacted]
          metas,           \* List.metas, per process
          compacted,       \* List.compactedMetas
          pending,         \* List.added, removed, compactedAdded, compactedRemoved
          poll,            \* Poller.Do: [pc, metas, compacted, unknown, marked]
          job,             \* a compaction or retention: [pc, by, ins, out, todo, err]
          faults

storeVars == <<store, holds, flagged, expired, taken>>
listVars == <<metas, compacted, pending>>
pollVars == <<poll, polled>>
vars == <<storeVars, index, listVars, pollVars, job, faults>>

Procs == Workers \cup {Scheduler}

Changes == [add : SUBSET Blocks, remove : SUBSET Blocks,
            compactedAdd : SUBSET Blocks, compactedRemove : SUBSET Blocks]
NoChange == [add |-> {}, remove |-> {}, compactedAdd |-> {}, compactedRemove |-> {}]
NoPoll == [pc |-> "idle", metas |-> {}, compacted |-> {}, unknown |-> {}, marked |-> {}]
NoIndex == [there |-> FALSE, metas |-> {}, compacted |-> {}]
NoJob == [pc |-> "idle", by |-> Scheduler, ins |-> {}, out |-> NoBlock, todo |-> {}, err |-> FALSE]

Init == /\ store = [b \in Blocks |-> "none"]
        /\ holds = [b \in Blocks |-> {}]
        /\ flagged = {} /\ expired = {}
        /\ taken = [w \in Workers |-> {}]
        /\ polled = [p \in Procs |-> {}]
        /\ index = NoIndex
        /\ metas = [p \in Procs |-> {}]
        /\ compacted = [p \in Procs |-> {}]
        /\ pending = [p \in Procs |-> NoChange]
        /\ poll = [p \in Procs |-> NoPoll]
        /\ job = NoJob
        /\ faults = 0

Fault == faults < MaxFaults /\ faults' = faults + 1

HasMeta(b) == store[b] \in {"live", "both"}
HasCompactedMeta(b) == store[b] \in {"compacted", "both"}

-----------------------------------------------------------------------------
(* List. *)

\* updateInternal on the live blocks m and on the compacted blocks c.
UpdatedMetas(m, u) == (m \ u.remove)
                      \cup (u.add \ (u.remove \cup u.compactedAdd \cup u.compactedRemove))
UpdatedCompacted(c, u) == (c \cup u.compactedAdd) \ u.compactedRemove

Merge(u, v) == [add |-> u.add \cup v.add, remove |-> u.remove \cup v.remove,
                compactedAdd |-> u.compactedAdd \cup v.compactedAdd,
                compactedRemove |-> u.compactedRemove \cup v.compactedRemove]

\* Mutant: a change is not kept for the poll that is under way.
UpdateOnly(p, u) == /\ metas' = [metas EXCEPT ![p] = UpdatedMetas(@, u)]
                    /\ compacted' = [compacted EXCEPT ![p] = UpdatedCompacted(@, u)]
                    /\ pending' = pending

\* List.Update
Update(p, u) == /\ metas' = [metas EXCEPT ![p] = UpdatedMetas(@, u)]
                /\ compacted' = [compacted EXCEPT ![p] = UpdatedCompacted(@, u)]
                /\ pending' = [pending EXCEPT ![p] = Merge(@, u)]

\* List.ApplyPollResults: the changes survive one poll.
ApplyPollResults(p) == /\ poll[p].pc = "apply"
                       /\ metas' = [metas EXCEPT ![p] = UpdatedMetas(poll[p].metas, pending[p])]
                       /\ compacted' = [compacted EXCEPT ![p] =
                                          UpdatedCompacted(poll[p].compacted, pending[p])]
                       /\ pending' = [pending EXCEPT ![p] = NoChange]
                       /\ poll' = [poll EXCEPT ![p] = NoPoll]
                       /\ polled' = [polled EXCEPT ![p] = @ \cup poll[p].marked]
                       /\ UNCHANGED <<storeVars, index, job, faults>>

-----------------------------------------------------------------------------
(* Poller. *)

\* pollTenantAndCreateIndex of a process that does not build the index.
TenantIndex == /\ poll[Scheduler].pc = "idle" /\ index.there
               /\ poll' = [poll EXCEPT ![Scheduler] =
                             [pc |-> "apply", metas |-> index.metas,
                              compacted |-> index.compacted, unknown |-> {}, marked |-> {}]]
               /\ UNCHANGED <<storeVars, polled, index, listVars, job, faults>>

\* reader.Blocks, of a builder or because the index is missing, stale or
\* cannot be read (blocklist_poll_fallback).
ListBlocks(p) == /\ poll[p].pc = "idle"
                 /\ IF p \in Workers \/ ~index.there THEN UNCHANGED faults ELSE Fault
                 /\ poll' = [poll EXCEPT ![p] =
                               [pc |-> "listed", metas |-> {b \in Blocks : HasMeta(b)},
                                compacted |-> {b \in Blocks : HasCompactedMeta(b)},
                                unknown |-> {},
                                marked |-> {b \in Blocks : store[b] = "compacted"}]]
                 /\ UNCHANGED <<storeVars, polled, index, listVars, job>>

\* pollTenantBlocks: what the previous list knows is not read again.
Classify(p) ==
    LET old == metas[p]
        oldC == compacted[p]
        live == poll[p].metas
        comp == poll[p].compacted
    IN  /\ poll[p].pc = "listed"
        /\ poll' = [poll EXCEPT ![p] =
                      [pc |-> "read", marked |-> @.marked, metas |-> live \cap old,
                       compacted |-> comp \cap (oldC \cup old),
                       unknown |-> ((live \ old) \ (comp \ (oldC \cup old))) \X {FALSE}
                                   \cup (comp \ (oldC \cup old)) \X {TRUE}]]
        /\ UNCHANGED <<storeVars, polled, index, listVars, job, faults>>

\* pollUnknown and pollBlock, one block: only the scheduler skips a block with
\* the flag, and a block that is neither is in an intermediate state.
pollBlock(p, b, comp) ==
    LET skip == ~comp /\ p = Scheduler /\ b \in flagged
        live == ~skip /\ ~comp /\ HasMeta(b)
        dead == ~skip /\ ~live /\ HasCompactedMeta(b)
    IN  /\ poll[p].pc = "read" /\ <<b, comp>> \in poll[p].unknown
        /\ poll' = [poll EXCEPT ![p] =
             [pc |-> "read", marked |-> @.marked, unknown |-> @.unknown \ {<<b, comp>>},
              metas |-> IF live THEN @.metas \cup {b} ELSE @.metas,
              compacted |-> IF dead THEN @.compacted \cup {b} ELSE @.compacted]]
        /\ UNCHANGED <<storeVars, polled, index, listVars, job, faults>>

\* Mutant: an index that is there is not written again.
WriteOnce(p) ==
    LET there == poll[p].metas \cup poll[p].compacted # {} IN
    /\ poll[p].pc = "read" /\ poll[p].unknown = {}
    /\ \/ /\ index' = IF index.there THEN index
                      ELSE [there |-> there, metas |-> poll[p].metas,
                            compacted |-> poll[p].compacted]
          /\ UNCHANGED faults
       \/ index' = index /\ Fault
    /\ poll' = [poll EXCEPT ![p].pc = "apply"]
    /\ UNCHANGED <<storeVars, polled, listVars, job>>

\* WriteTenantIndex; an error is only logged, and an empty index is deleted.
WriteTenantIndex(p) ==
    LET there == poll[p].metas \cup poll[p].compacted # {} IN
    /\ poll[p].pc = "read" /\ poll[p].unknown = {}
    /\ \/ index' = [there |-> there, metas |-> poll[p].metas, compacted |-> poll[p].compacted]
          /\ UNCHANGED faults
       \/ index' = index /\ Fault
    /\ poll' = [poll EXCEPT ![p].pc = "apply"]
    /\ UNCHANGED <<storeVars, polled, listVars, job>>

\* A poll that fails is abandoned or, past its tolerated errors, replaced by
\* the list as it is.
PollFails(p) == /\ poll[p].pc \in {"listed", "read"} /\ Fault
                /\ \/ poll' = [poll EXCEPT ![p] = NoPoll]
                   \/ poll' = [poll EXCEPT ![p] = [pc |-> "apply", metas |-> metas[p],
                                                   compacted |-> compacted[p], unknown |-> {},
                                                   marked |-> {}]]
                /\ UNCHANGED <<storeVars, polled, index, listVars, job>>

-----------------------------------------------------------------------------
(* Compaction and retention. *)

\* A worker runs a compaction of blocks of the scheduler's list: the output is
\* in the store before the first input is marked.
Compact(w, S, o) == /\ job.pc = "idle" /\ S # {}
                    /\ \A b \in S : store[b] \in {"live", "both", "compacted"}
                    /\ store[o] = "none"
                    /\ store' = [store EXCEPT ![o] = "live"]
                    /\ holds' = [holds EXCEPT ![o] = UNION {holds[b] : b \in S}]
                    /\ job' = [pc |-> "mark", by |-> w, ins |-> S, out |-> o, todo |-> S,
                               err |-> FALSE]
                    /\ UNCHANGED <<flagged, expired, taken, index, listVars, pollVars, faults>>

\* retainTenant: a block of the worker's list is past its retention.
Retain(w, b) == /\ job.pc = "idle" /\ b \in metas[w]
                /\ job' = [pc |-> "mark", by |-> w, ins |-> {b}, out |-> NoBlock, todo |-> {b},
                           err |-> FALSE]
                /\ expired' = expired \cup holds[b]
                /\ UNCHANGED <<store, holds, flagged, taken, index, listVars, pollVars, faults>>

\* Mutant: an input is removed where it should be marked.
RemoveBlock(b) == /\ job.pc = "mark" /\ b \in job.todo /\ store[b] = "live"
                  /\ store' = [store EXCEPT ![b] = "gone"]
                  /\ job' = [job EXCEPT !.todo = @ \ {b}]
                  /\ UNCHANGED <<holds, flagged, expired, taken, index, listVars, pollVars, faults>>

\* MarkBlockCompacted: a copy of meta.json, then its removal.
CopyMeta(b) == /\ job.pc = "mark" /\ b \in job.todo /\ store[b] = "live"
               /\ store' = [store EXCEPT ![b] = "both"]
               /\ UNCHANGED <<holds, flagged, expired, taken, index, listVars, pollVars, job,
                              faults>>

RemoveMeta(b) == /\ job.pc = "mark" /\ b \in job.todo /\ store[b] = "both"
                 /\ store' = [store EXCEPT ![b] = "compacted"]
                 /\ job' = [job EXCEPT !.todo = @ \ {b}]
                 /\ UNCHANGED <<holds, flagged, expired, taken, index, listVars, pollVars, faults>>

\* An error, or nothing to copy: the other blocks are marked all the same.
MarkFails(b) == /\ job.pc = "mark" /\ b \in job.todo
                /\ IF HasMeta(b) THEN Fault ELSE UNCHANGED faults
                /\ job' = [job EXCEPT !.todo = @ \ {b}, !.err = TRUE]
                /\ UNCHANGED <<storeVars, index, listVars, pollVars>>

\* Mutant: the list is given an output that is not there.
markNothing == /\ job.pc = "mark" /\ job.todo = {}
               /\ IF job.out = NoBlock /\ job.err THEN UNCHANGED listVars
                  ELSE Update(job.by, [add |-> {job.out}, remove |-> job.ins,
                                       compactedAdd |-> job.ins, compactedRemove |-> {}])
               /\ job' = IF job.err \/ job.out = NoBlock THEN NoJob
                         ELSE [job EXCEPT !.pc = "report"]
               /\ UNCHANGED <<storeVars, index, pollVars, faults>>

\* markCompacted updates the list also when a block could not be marked, the
\* retention does not.
markCompacted == /\ job.pc = "mark" /\ job.todo = {}
                 /\ IF job.out = NoBlock /\ job.err THEN UNCHANGED <<listVars, taken>>
                    ELSE /\ Update(job.by, [add |-> {job.out} \ {NoBlock}, remove |-> job.ins,
                                            compactedAdd |-> job.ins, compactedRemove |-> {}])
                         /\ taken' = [taken EXCEPT ![job.by] =
                                         @ \cup {b \in job.ins : ~HasMeta(b)}]
                 /\ job' = IF job.err \/ job.out = NoBlock THEN NoJob
                           ELSE [job EXCEPT !.pc = "report"]
                 /\ UNCHANGED <<store, holds, flagged, expired, index, pollVars, faults>>

\* UpdateJob: applyJobsToBlocklist marks the inputs its list still has, and
\* adds no output.
applyJobsToBlocklist ==
    LET old == job.ins \cap metas[Scheduler] IN
    /\ job.pc = "report"
    /\ Update(Scheduler, [add |-> {}, remove |-> old, compactedAdd |-> old,
                          compactedRemove |-> {}])
    /\ job' = NoJob
    /\ UNCHANGED <<storeVars, index, pollVars, faults>>

ReportLost == /\ job.pc = "report" /\ Fault
              /\ job' = NoJob
              /\ UNCHANGED <<storeVars, index, listVars, pollVars>>

\* retainTenant clears a block whose compaction is older than
\* CompactedBlockRetention: no list, index or poll is that old, and every
\* worker has listed the store since.
ClearBlock(w, b) == /\ job.pc = "idle" /\ store[b] = "compacted"
                    /\ \A v \in Workers : b \in polled[v]
                    /\ \A p \in Procs : b \in compacted[p] \ metas[p] /\ b \notin poll[p].metas
                    /\ b \notin index.metas
                    /\ store' = [store EXCEPT ![b] = "gone"]
                    /\ flagged' = flagged \ {b}
                    /\ Update(w, [NoChange EXCEPT !.compactedRemove = {b}])
                    /\ UNCHANGED <<holds, expired, taken, index, pollVars, job, faults>>

-----------------------------------------------------------------------------
(* Around them: the block-builder. *)

WriteBlock(b) == /\ store[b] = "none"
                 /\ store' = [store EXCEPT ![b] = "live"]
                 /\ holds' = [holds EXCEPT ![b] = {b}]
                 /\ flagged' = flagged \cup {b}
                 /\ UNCHANGED <<expired, taken, index, listVars, pollVars, job, faults>>

AllowCompaction(b) == /\ b \in flagged
                      /\ flagged' = flagged \ {b}
                      /\ UNCHANGED <<store, holds, expired, taken, index, listVars, pollVars, job,
                                     faults>>

-----------------------------------------------------------------------------
PollStep(p) == \/ p = Scheduler /\ TenantIndex
               \/ ListBlocks(p) \/ Classify(p) \/ WriteTenantIndex(p) \/ ApplyPollResults(p)
               \/ \E b \in Blocks, comp \in BOOLEAN : pollBlock(p, b, comp)

MarkStep == \/ \E b \in Blocks : CopyMeta(b) \/ RemoveMeta(b) \/ MarkFails(b)
            \/ markCompacted \/ applyJobsToBlocklist

StartJob == \E w \in Workers :
              \/ \E S \in SUBSET metas[Scheduler], o \in Blocks : Compact(w, S, o)
              \/ \E b \in Blocks : Retain(w, b) \/ ClearBlock(w, b)

Next == \/ \E p \in Procs : PollStep(p) \/ PollFails(p)
        \/ MarkStep \/ ReportLost \/ StartJob
        \/ \E b \in Blocks : WriteBlock(b) \/ AllowCompaction(b)

Spec == Init /\ [][Next]_vars

\* pollingLoop ticks for ever, a job that was started is gone through, and the
\* block-builder releases its blocks: until it does, a fallback poll of the
\* scheduler can delete the index with the flagged blocks time and again.
FairSpec == /\ Spec
            /\ \A p \in Procs : WF_vars(PollStep(p))
            /\ WF_vars(MarkStep)
            /\ WF_vars(\E b \in Blocks : AllowCompaction(b))

-----------------------------------------------------------------------------
\* Every variable has its type.
TypeOK == /\ store \in [Blocks -> {"none", "live", "both", "compacted", "gone"}]
          /\ holds \in [Blocks -> SUBSET Blocks]
          /\ flagged \in SUBSET Blocks /\ expired \in SUBSET Blocks
          /\ taken \in [Workers -> SUBSET Blocks]
          /\ polled \in [Procs -> SUBSET Blocks]
          /\ index \in [there : BOOLEAN, metas : SUBSET Blocks, compacted : SUBSET Blocks]
          /\ metas \in [Procs -> SUBSET Blocks]
          /\ compacted \in [Procs -> SUBSET Blocks]
          /\ pending \in [Procs -> Changes]
          /\ poll \in [Procs -> [pc : {"idle", "listed", "read", "apply"}, metas : SUBSET Blocks,
                                 compacted : SUBSET Blocks, unknown : SUBSET (Blocks \X BOOLEAN),
                                 marked : SUBSET Blocks]]
          /\ job \in [pc : {"idle", "mark", "report"}, by : Procs, ins : SUBSET Blocks,
                      out : Blocks \cup {NoBlock}, todo : SUBSET Blocks, err : BOOLEAN]
          /\ faults \in 0 .. MaxFaults

\* The traces of section s are in a block that a query through p reads.
Found(p, s) == \E b \in metas[p] \cup compacted[p] :
                   s \in holds[b] /\ store[b] \in {"live", "both", "compacted"}

\* What a query through a worker's list finds it goes on finding, whatever
\* compactions, clears and polls do in between, until retention gives it up.
NothingHidden == [][\A w \in Workers, s \in Blocks :
                      Found(w, s) /\ s \notin expired => Found(w, s)']_vars

\* A block that a worker's job has marked and taken out of its list does not
\* become live again in that list, not even with a poll that listed it before
\* (List.Update, ApplyPollResults).
NoRevival == \A w \in Workers : taken[w] \cap metas[w] = {}

\* Once the store has come to rest the scheduler's list settles on its live
\* blocks: no block is missed and no compacted one offered for ever, although
\* it is a worker's poll that has to see them and the index may be older than
\* what a worker reported (pollTenantAndCreateIndex, ApplyPollResults).
Converges == <>[](metas[Scheduler] = {b \in Blocks : HasMeta(b)})

\* The scheduler, which polls with SkipNoCompactBlocks, does not have a block
\* with the nocompact flag in its list and cannot offer it for compaction.
FlagRespected == flagged \cap metas[Scheduler] = {}
=============================================================================
