------------------------ MODULE SchedulerSafetyProofs ------------------------
(***************************************************************************)
(* Three more invariants of the backend scheduler, each with the inductive *)
(* invariant it needs on top of SchedulerInv and one lemma per action that *)
(* disturbs it:                                                            *)
(*   KnownInv        the scheduler knows the job of every worker;          *)
(*   DisjointInv     no block is the input of two compactions;             *)
(*   CoveredInv      redaction jobs have a batch.                          *)
(* The last two speak of the time before the first restart.                *)
(***************************************************************************)
EXTENDS BackendSchedulerProofs

-----------------------------------------------------------------------------
(***************************************************************************)
(* The job of a worker.  Shards and memory agree on it; while the worker   *)
(* executes, the job runs and nobody reports on it.                        *)
(***************************************************************************)
AssignmentHolds(w) ==
    LET j == wk[w].job
    IN  /\ status[j] # "absent" /\ workerOf[j] = w
        /\ disk.status[j] # "absent" /\ disk.workerOf[j] = w
        /\ wk[w].pc = "busy" => /\ status[j] = "running" /\ disk.status[j] = "running"
                                /\ \A c \in calls : c.job # j

WorkersKnown == \A w \in Workers : wk[w].pc # "idle" => AssignmentHolds(w)

\* A report on a running job comes from the worker that holds it and that has
\* not taken another job since.
ReportHolds(c) ==
    /\ status[c.job] # "absent"
    /\ c.pc \in {"ended", "flushed"} => status[c.job] # "running"
    /\ status[c.job] = "running" =>
         /\ workerOf[c.job] \in Workers
         /\ wk[workerOf[c.job]].pc \in {"report", "wait"}
         /\ wk[workerOf[c.job]].job = c.job
    /\ c.worker \in Workers => wk[c.worker].job = c.job

ReportsKnown == \A c \in calls : ReportHolds(c)

\* An entry of the worker index names a running job of that worker.
IndexOwn == \A w \in Workers : workerJobs[w] # NoJob => IsActive(workerJobs[w]) /\ workerOf[workerJobs[w]] = w

KnownInv == WorkersKnown /\ ReportsKnown /\ IndexOwn

\* A write of the files leaves a job as it was there or as it is in memory.
DiskMoves ==
    \A j \in JobIDs :
      \/ disk'.status[j] = disk.status[j] /\ disk'.workerOf[j] = disk.workerOf[j]
      \/ disk'.status[j] = status'[j] /\ disk'.workerOf[j] = workerOf'[j]

LEMMA FlushedMoves == ASSUME NEW S, NEW m, disk' = Flushed(S, m) PROVE DiskMoves
<1>1. /\ disk'.status = [j \in JobIDs |-> IF ShardOf[j] \in S THEN status'[j] ELSE disk.status[j]]
      /\ disk'.workerOf = [j \in JobIDs |-> IF ShardOf[j] \in S THEN workerOf'[j] ELSE disk.workerOf[j]]
    BY DEF Flushed
<1> QED BY <1>1 DEF DiskMoves

LEMMA FlushBatchesMoves == ASSUME NEW S, FlushBatches(S) PROVE DiskMoves
BY FlushedMoves DEF FlushBatches

LEMMA SameDiskMoves == ASSUME UNCHANGED disk PROVE DiskMoves
BY DEF DiskMoves

LEMMA JobTypes ==
    ASSUME SchedulerInv
    PROVE  /\ \A c \in calls : c.job \in JobIDs /\ c.worker \in Workers \cup {NoWorker}
           /\ \A w \in Workers : wk[w].pc # "idle" => wk[w].job \in JobIDs
           /\ \A w \in Workers : workerJobs[w] # NoJob => workerJobs[w] \in JobIDs
BY DEF SchedulerInv, TypeOK, ProcTypeOK, EnvTypeOK, WorkTypeOK, CallType

\* Steps that touch neither a job's status nor its worker.
LEMMA KnownFrame ==
    ASSUME SchedulerInv, KnownInv, UNCHANGED <<status, workerOf, workerJobs, calls, wk>>, DiskMoves
    PROVE  KnownInv'
<1>1. WorkersKnown'
    <2>1. SUFFICES ASSUME NEW w \in Workers, wk[w].pc # "idle" PROVE AssignmentHolds(w)'
        BY DEF WorkersKnown
    <2>2. AssignmentHolds(w) /\ wk[w].job \in JobIDs BY <2>1, JobTypes DEF KnownInv, WorkersKnown
    <2> QED BY <2>2 DEF AssignmentHolds, DiskMoves
<1>2. ReportsKnown' BY DEF KnownInv, ReportsKnown, ReportHolds
<1>3. IndexOwn' BY DEF KnownInv, IndexOwn, IsActive
<1> QED BY <1>1, <1>2, <1>3 DEF KnownInv

LEMMA ProviderLeavesKnown ==
    ASSUME SchedulerInv, KnownInv, ProviderStep PROVE KnownInv'
<1>1. UNCHANGED <<status, workerOf, workerJobs, calls, wk, disk>>
    <2>1. ASSUME (\E t \in Tenants : PrepareNextTenant(t)) \/ NewBlockSelector \/ CreateJob \/ ResetTenant
          PROVE  UNCHANGED <<status, workerOf, workerJobs, calls, wk, disk>>
        BY <2>1 DEF PrepareNextTenant, NewBlockSelector, CreateJob, ResetTenant, workVars, jobVars, indexVars, envVars
    <2>2. ASSUME RegisterCompaction \/ \E t \in Tenants : EmitRetentionJob(t)
          PROVE  UNCHANGED <<status, workerOf, workerJobs, calls, wk, disk>>
        BY <2>2 DEF RegisterCompaction, EmitRetentionJob, RegisterJob, envVars
    <2>3. ASSUME DrainPending PROVE UNCHANGED <<status, workerOf, workerJobs, calls, wk, disk>>
        BY <2>3 DEF DrainPending, NextPendingJob, envVars
    <2> QED BY <2>1, <2>2, <2>3 DEF ProviderStep
<1> QED BY <1>1, KnownFrame, SameDiskMoves

LEMMA SubmissionLeavesKnown ==
    ASSUME SchedulerInv, KnownInv, NEW c \in Clients, SubmitRedaction(c) PROVE KnownInv'
<1>1. UNCHANGED <<status, workerOf, workerJobs, calls, wk>> /\ DiskMoves
    <2>1. ASSUME NEW t \in Tenants, NEW m \in Modes, SubmitSnapshot(c, t, m)
          PROVE  UNCHANGED <<status, workerOf, workerJobs, calls, wk, disk>>
        BY <2>1 DEF SubmitSnapshot, workVars, jobVars, indexVars, envVars
    <2>2. ASSUME SubmitAddBatch(c) PROVE UNCHANGED <<status, workerOf, workerJobs, calls, wk, disk>>
        BY <2>2 DEF SubmitAddBatch, SetBatch, workVars, jobVars, indexVars, envVars
    <2>3. ASSUME SubmitEnqueue(c) PROVE UNCHANGED <<status, workerOf, workerJobs, calls, wk>> /\ DiskMoves
        BY <2>3, FlushBatchesMoves DEF SubmitEnqueue, AddPendingJobs
    <2> QED BY <2>1, <2>2, <2>3, SameDiskMoves DEF SubmitRedaction
<1> QED BY <1>1, KnownFrame

LEMMA RescanLeavesKnown ==
    ASSUME SchedulerInv, KnownInv,
           (\E t \in Tenants : RescanBegin(t)) \/ RescanRound \/ RescanCommit \/ RescanEnqueue \/ CleanupOrphanedBatches
    PROVE  KnownInv'
<1>1. UNCHANGED <<status, workerOf, workerJobs, calls, wk>> /\ DiskMoves
    <2>1. ASSUME (\E t \in Tenants : RescanBegin(t)) \/ RescanRound
          PROVE  UNCHANGED <<status, workerOf, workerJobs, calls, wk, disk>>
        BY <2>1 DEF RescanBegin, RescanRound, workVars, jobVars, indexVars, envVars
    <2>2. ASSUME RescanCommit PROVE UNCHANGED <<status, workerOf, workerJobs, calls, wk>> /\ DiskMoves
        BY <2>2, FlushBatchesMoves, SameDiskMoves DEF RescanCommit, SetBatch, jobVars, indexVars
    <2>3. ASSUME RescanEnqueue PROVE UNCHANGED <<status, workerOf, workerJobs, calls, wk>> /\ DiskMoves
        BY <2>3, FlushBatchesMoves DEF RescanEnqueue, AddPendingJobs
    <2>4. ASSUME CleanupOrphanedBatches PROVE UNCHANGED <<status, workerOf, workerJobs, calls, wk>> /\ DiskMoves
        BY <2>4, FlushBatchesMoves, SameDiskMoves DEF CleanupOrphanedBatches, jobVars, indexVars
    <2> QED BY <2>1, <2>2, <2>3, <2>4, SameDiskMoves
<1> QED BY <1>1, KnownFrame

\* A delivered job is in its shard's file before the worker has it.
LEMMA DeliverKnown ==
    ASSUME SchedulerInv, KnownInv, NEW w \in Workers, NEW j \in JobIDs, Deliver(w, j),
           wk[w].pc = "idle", status'[j] = "running", workerOf'[j] = w,
           \A c \in calls : c.job # j, UNCHANGED calls,
           \A v \in Workers : wk[v].pc # "idle" => wk[v].job # j,
           \A v \in Workers : workerJobs[v] = j => v = w,
           \A i \in JobIDs : i # j => status'[i] = status[i] /\ workerOf'[i] = workerOf[i],
           \A v \in Workers : workerJobs'[v] = workerJobs[v] \/ (v = w /\ workerJobs'[v] = j),
           workerJobs' \in [Workers -> JobIDs \cup {NoJob}]
    PROVE  KnownInv'
<1> DEFINE given == [IdleWorker EXCEPT !.pc = "busy", !.job = j]
<1>1. given.pc = "busy" /\ given.job = j BY DEF IdleWorker
<1>2. wk \in [Workers -> WorkerType] BY DEF SchedulerInv, TypeOK, EnvTypeOK
<1> HIDE DEF given
<1>3. /\ DiskMoves
      /\ wk' = wk \/ (wk' = [wk EXCEPT ![w] = given] /\ disk'.status[j] = "running" /\ disk'.workerOf[j] = w)
    <2>1. CASE FlushToLocal({j})
        <3>1. disk'.status = [i \in JobIDs |-> IF ShardOf[i] \in ShardsOf({j}) THEN status'[i] ELSE disk.status[i]]
              /\ disk'.workerOf = [i \in JobIDs |-> IF ShardOf[i] \in ShardsOf({j}) THEN workerOf'[i] ELSE disk.workerOf[i]]
            BY <2>1 DEF FlushToLocal, Flushed
        <3>2. ShardOf[j] \in ShardsOf({j}) BY DEF ShardsOf
        <3>3. DiskMoves BY <2>1, FlushedMoves DEF FlushToLocal
        <3> QED BY <3>1, <3>2, <3>3 DEF Deliver, given
    <2>2. CASE UNCHANGED <<disk, wk>> BY <2>2, SameDiskMoves
    <2> QED BY <2>1, <2>2 DEF Deliver
<1>4. WorkersKnown'
    <2>1. SUFFICES ASSUME NEW v \in Workers, wk'[v].pc # "idle" PROVE AssignmentHolds(v)'
        BY DEF WorkersKnown
    <2>2. CASE wk'[v] = wk[v]
        <3>1. AssignmentHolds(v) /\ wk[v].job \in JobIDs /\ wk[v].job # j
            BY <2>1, <2>2, JobTypes DEF KnownInv, WorkersKnown
        <3>2. status'[wk[v].job] = status[wk[v].job] /\ workerOf'[wk[v].job] = workerOf[wk[v].job] BY <3>1
        <3> QED BY <1>3, <2>2, <3>1, <3>2 DEF AssignmentHolds, DiskMoves
    <2>3. CASE v = w /\ wk'[v] = given BY <1>1, <1>2, <1>3, <2>1, <2>3 DEF AssignmentHolds
    <2> QED BY <1>2, <1>3, <2>2, <2>3
<1>5. ReportsKnown'
    <2>1. SUFFICES ASSUME NEW c \in calls PROVE ReportHolds(c)'
        BY DEF ReportsKnown
    <2>2. ReportHolds(c) /\ c.job \in JobIDs /\ c.job # j BY JobTypes DEF KnownInv, ReportsKnown
    <2>3. status'[c.job] = status[c.job] /\ workerOf'[c.job] = workerOf[c.job] BY <2>2
    <2>4. \A v \in Workers : v # w => wk'[v] = wk[v] BY <1>2, <1>3
    <2>5. status[c.job] = "running" => workerOf[c.job] # w BY <2>2 DEF ReportHolds
    <2>6. c.worker # w BY DEF SchedulerInv, CallsAwaited
    <2> QED BY <2>2, <2>3, <2>4, <2>5, <2>6 DEF ReportHolds
<1>6. IndexOwn'
    <2>1. SUFFICES ASSUME NEW v \in Workers, workerJobs'[v] # NoJob
                   PROVE  status'[workerJobs'[v]] = "running" /\ workerOf'[workerJobs'[v]] = v
        BY DEF IndexOwn, IsActive
    <2>2. CASE workerJobs'[v] = j BY <2>2
    <2>3. CASE workerJobs'[v] = workerJobs[v] /\ workerJobs[v] # j
        BY <2>1, <2>3, JobTypes DEF KnownInv, IndexOwn, IsActive
    <2> QED BY <2>2, <2>3
<1> QED BY <1>4, <1>5, <1>6 DEF KnownInv

LEMMA NextRedeliverKnown ==
    ASSUME SchedulerInv, KnownInv, NEW w \in Workers, NextRedeliver(w) PROVE KnownInv'
<1> DEFINE j == GetJobForWorker(w)
<1>1. /\ wk[w].pc = "idle" /\ Deliver(w, j)
      /\ UNCHANGED <<status, workerOf, workerJobs, calls>>
    BY DEF NextRedeliver, workVars, jobVars, indexVars, procVars
<1>2. j # NoJob /\ j = workerJobs[w] BY DEF NextRedeliver, GetJobForWorker
<1> HIDE DEF j
<1>3. j \in JobIDs /\ status[j] = "running" /\ workerOf[j] = w
    BY <1>2, JobTypes DEF KnownInv, IndexOwn, IsActive
<1>4. \A c \in calls : c.job # j BY <1>1, <1>3 DEF KnownInv, ReportsKnown, ReportHolds
<1>5. \A v \in Workers : wk[v].pc # "idle" => wk[v].job # j
    BY <1>1, <1>3 DEF KnownInv, WorkersKnown, AssignmentHolds
<1>6. \A v \in Workers : workerJobs[v] = j => v = w BY <1>2, <1>3 DEF KnownInv, IndexOwn
<1>7. workerJobs \in [Workers -> JobIDs \cup {NoJob}] BY DEF SchedulerInv, TypeOK, WorkTypeOK
<1> QED BY <1>1, <1>3, <1>4, <1>5, <1>6, <1>7, DeliverKnown

LEMMA NextAssignKnown ==
    ASSUME SchedulerInv, KnownInv, NEW w \in Workers, NEW j \in piped, NextAssign(w, j) PROVE KnownInv'
<1>1. j \in JobIDs /\ status[j] = "absent"
    BY DEF SchedulerInv, TypeOK, ProcTypeOK, JobInOnePlace, Known
<1>2. wk[w].pc = "idle" /\ Deliver(w, j) /\ UNCHANGED calls BY DEF NextAssign
<1>3. /\ status' = [status EXCEPT ![j] = "running"]
      /\ workerOf' = [workerOf EXCEPT ![j] = w]
      /\ workerJobs' = [workerJobs EXCEPT ![w] = j]
    BY DEF NextAssign, AddJob
<1>4. /\ status \in [JobIDs -> Statuses] /\ workerOf \in [JobIDs -> Workers \cup {NoWorker}]
      /\ workerJobs \in [Workers -> JobIDs \cup {NoJob}]
    BY DEF SchedulerInv, TypeOK, WorkTypeOK
<1>5. /\ status'[j] = "running" /\ workerOf'[j] = w
      /\ \A i \in JobIDs : i # j => status'[i] = status[i] /\ workerOf'[i] = workerOf[i]
    BY <1>1, <1>3, <1>4
<1>6. /\ \A v \in Workers : workerJobs'[v] = workerJobs[v] \/ (v = w /\ workerJobs'[v] = j)
      /\ workerJobs' \in [Workers -> JobIDs \cup {NoJob}]
    BY <1>1, <1>3, <1>4
<1>7. \A c \in calls : c.job # j BY <1>1 DEF KnownInv, ReportsKnown, ReportHolds
<1>8. \A v \in Workers : wk[v].pc # "idle" => wk[v].job # j
    BY <1>1 DEF KnownInv, WorkersKnown, AssignmentHolds
<1>9. \A v \in Workers : workerJobs[v] = j => v = w
    <2>1. j # NoJob BY <1>1, WorkAssumption
    <2> QED BY <1>1, <2>1 DEF KnownInv, IndexOwn, IsActive
<1> QED BY <1>1, <1>2, <1>5, <1>6, <1>7, <1>8, <1>9, DeliverKnown

LEMMA NextDropKnown ==
    ASSUME SchedulerInv, KnownInv, NEW w \in Workers, NEW j \in piped, NextDrop(w, j) PROVE KnownInv'
<1>1. UNCHANGED <<status, workerOf, workerJobs, calls, wk, disk>>
    BY DEF NextDrop, ReleaseRedactionInFlight, workVars, jobVars, indexVars, envVars
<1> QED BY <1>1, KnownFrame, SameDiskMoves

(***************************************************************************)
(* The worker's side of a report.                                          *)
(***************************************************************************)
LEMMA ExecuteKnown ==
    ASSUME SchedulerInv, KnownInv, NEW w \in Workers, Execute(w) PROVE KnownInv'
<1>1. UNCHANGED <<status, workerOf, workerJobs, calls, disk>>
    BY DEF Execute, workVars, jobVars, indexVars, procVars
<1>2. PICK ok, out : Finish(w, ok, out)
    BY DEF Execute, ExecuteCompaction, ExecuteRedaction, ExecuteRetention
<1>3. /\ wk[w].pc = "busy" /\ wk[w] \in WorkerType /\ wk \in [Workers -> WorkerType]
    BY DEF Execute, SchedulerInv, TypeOK, EnvTypeOK
<1>4. wk'[w].pc = "report" /\ wk'[w].job = wk[w].job /\ \A v \in Workers : v # w => wk'[v] = wk[v]
    BY <1>2, <1>3 DEF Finish, WorkerType
<1>5. WorkersKnown'
    <2>1. SUFFICES ASSUME NEW v \in Workers, wk'[v].pc # "idle" PROVE AssignmentHolds(v)' BY DEF WorkersKnown
    <2>2. wk[v].pc # "idle" BY <1>3, <1>4, <2>1
    <2>3. AssignmentHolds(v) BY <2>2 DEF KnownInv, WorkersKnown
    <2>4. wk'[v].job = wk[v].job /\ (wk'[v].pc = "busy" => wk[v].pc = "busy") BY <1>4
    <2> QED BY <1>1, <2>3, <2>4 DEF AssignmentHolds
<1>6. ReportsKnown'
    <2>1. SUFFICES ASSUME NEW c \in calls PROVE ReportHolds(c)' BY <1>1 DEF ReportsKnown
    <2>2. ReportHolds(c) BY DEF KnownInv, ReportsKnown
    <2> QED BY <1>1, <1>3, <1>4, <2>2 DEF ReportHolds
<1>7. IndexOwn' BY <1>1 DEF KnownInv, IndexOwn, IsActive
<1> QED BY <1>5, <1>6, <1>7 DEF KnownInv

LEMMA SendReportKnown ==
    ASSUME SchedulerInv, KnownInv, NEW w \in Workers, SendReport(w) PROVE KnownInv'
<1> DEFINE n == [worker |-> w, job |-> wk[w].job, ok |-> wk[w].ok, out |-> wk[w].out, pc |-> "received"]
<1>0. n.worker = w /\ n.job = wk[w].job /\ n.pc = "received" OBVIOUS
<1>1. UNCHANGED <<status, workerOf, workerJobs, disk>> /\ calls' = calls \cup {n}
    BY DEF SendReport, workVars, jobVars, indexVars
<1> HIDE DEF n
<1>2. wk[w].pc = "report" /\ wk \in [Workers -> WorkerType] BY DEF SendReport, SchedulerInv, TypeOK, EnvTypeOK
<1>3. wk'[w].pc = "wait" /\ wk'[w].job = wk[w].job /\ \A v \in Workers : v # w => wk'[v] = wk[v]
    BY <1>2 DEF SendReport, WorkerType
<1>4. AssignmentHolds(w) BY <1>2 DEF KnownInv, WorkersKnown
<1>5. WorkersKnown'
    <2>1. SUFFICES ASSUME NEW v \in Workers, wk'[v].pc # "idle" PROVE AssignmentHolds(v)' BY DEF WorkersKnown
    <2>2. CASE v = w BY <1>1, <1>3, <1>4, <2>2 DEF AssignmentHolds
    <2>3. CASE v # w
        <3>1. wk'[v] = wk[v] /\ AssignmentHolds(v) BY <1>3, <2>1, <2>3 DEF KnownInv, WorkersKnown
        <3>2. n.job # wk[v].job BY <1>0, <1>4, <2>3, <3>1 DEF AssignmentHolds
        <3> QED BY <1>1, <3>1, <3>2 DEF AssignmentHolds
    <2> QED BY <2>2, <2>3
<1>6. ReportsKnown'
    <2>1. SUFFICES ASSUME NEW c \in calls' PROVE ReportHolds(c)' BY DEF ReportsKnown
    <2>2. CASE c = n BY <1>0, <1>1, <1>3, <1>4, <2>2 DEF AssignmentHolds, ReportHolds
    <2>3. CASE c \in calls
        <3>1. ReportHolds(c) BY <2>3 DEF KnownInv, ReportsKnown
        <3> QED BY <1>1, <1>2, <1>3, <3>1 DEF ReportHolds
    <2> QED BY <1>1, <2>2, <2>3
<1>7. IndexOwn' BY <1>1 DEF KnownInv, IndexOwn, IsActive
<1> QED BY <1>5, <1>6, <1>7 DEF KnownInv

LEMMA LoseReplyKnown ==
    ASSUME SchedulerInv, KnownInv, NEW w \in Workers, LoseReply(w) PROVE KnownInv'
<1>1. UNCHANGED <<status, workerOf, workerJobs, disk>> /\ calls' = Orphaned(w)
    BY DEF LoseReply, workVars, jobVars, indexVars
<1>2. wk[w].pc = "wait" /\ wk \in [Workers -> WorkerType] BY DEF LoseReply, SchedulerInv, TypeOK, EnvTypeOK
<1>3. wk'[w].pc = "report" /\ wk'[w].job = wk[w].job /\ \A v \in Workers : v # w => wk'[v] = wk[v]
    BY <1>2 DEF LoseReply, WorkerType
<1>4. \A c \in calls' : \E e \in calls : /\ c.job = e.job /\ c.pc = e.pc
                                         /\ c.worker = e.worker \/ c.worker = NoWorker
    BY <1>1 DEF Orphaned, SchedulerInv, TypeOK, ProcTypeOK, CallType
<1>5. WorkersKnown'
    <2>1. SUFFICES ASSUME NEW v \in Workers, wk'[v].pc # "idle" PROVE AssignmentHolds(v)' BY DEF WorkersKnown
    <2>2. AssignmentHolds(v) BY <1>2, <1>3, <2>1 DEF KnownInv, WorkersKnown
    <2>3. wk'[v].job = wk[v].job /\ (wk'[v].pc = "busy" => wk[v].pc = "busy") BY <1>3
    <2> QED BY <1>1, <1>4, <2>2, <2>3 DEF AssignmentHolds
<1>6. ReportsKnown'
    <2>1. SUFFICES ASSUME NEW c \in calls' PROVE ReportHolds(c)' BY DEF ReportsKnown
    <2>2. PICK e \in calls : c.job = e.job /\ c.pc = e.pc /\ (c.worker = e.worker \/ c.worker = NoWorker)
        BY <1>4
    <2>3. ReportHolds(e) BY DEF KnownInv, ReportsKnown
    <2> QED BY <1>1, <1>2, <1>3, <2>2, <2>3, WorkAssumption DEF ReportHolds
<1>7. IndexOwn' BY <1>1 DEF KnownInv, IndexOwn, IsActive
<1> QED BY <1>5, <1>6, <1>7 DEF KnownInv

(***************************************************************************)
(* UpdateJob.  A call that has ended its job goes on, or answers.          *)
(***************************************************************************)
LEMMA CallGoesOn ==
    ASSUME SchedulerInv, KnownInv, NEW c \in calls, status[c.job] # "running",
           UNCHANGED <<status, workerOf, workerJobs>>, DiskMoves,
           (\E ok \in BOOLEAN : Reply(c, ok)) \/ (\E pc \in {"ended", "flushed"} : Proceed(c, pc))
    PROVE  KnownInv'
<1>1. calls \in SUBSET CallType /\ wk \in [Workers -> WorkerType]
    BY DEF SchedulerInv, TypeOK, ProcTypeOK, EnvTypeOK
<1>2. ReportHolds(c) BY DEF KnownInv, ReportsKnown
<1>3. \A d \in calls' : d \in calls \/ (d.job = c.job /\ d.worker = c.worker /\ d.pc \in {"ended", "flushed"}
                                        /\ UNCHANGED wk)
    <2>1. c \in CallType BY <1>1
    <2>2. CASE \E ok \in BOOLEAN : Reply(c, ok) BY <2>2 DEF Reply
    <2>3. CASE \E pc \in {"ended", "flushed"} : Proceed(c, pc) BY <2>1, <2>3 DEF Proceed, CallType
    <2> QED BY <2>2, <2>3
<1>4. \/ UNCHANGED wk
      \/ /\ c.worker \in Workers /\ \A v \in Workers : v # c.worker => wk'[v] = wk[v]
         /\ wk'[c.worker].pc \in {"idle", "report"}
         /\ wk'[c.worker].pc = "report" => wk'[c.worker].job = wk[c.worker].job
         /\ wk[c.worker].pc = "wait" /\ c \notin calls'
    <2>1. CASE UNCHANGED wk BY <2>1
    <2>2. ASSUME NEW ok \in BOOLEAN, Reply(c, ok), c.worker # NoWorker
          PROVE  /\ c.worker \in Workers /\ \A v \in Workers : v # c.worker => wk'[v] = wk[v]
                 /\ wk'[c.worker].pc \in {"idle", "report"}
                 /\ wk'[c.worker].pc = "report" => wk'[c.worker].job = wk[c.worker].job
                 /\ wk[c.worker].pc = "wait" /\ c \notin calls'
        <3>1. c.worker \in Workers BY <2>2, JobTypes
        <3>2. wk[c.worker].pc = "wait" BY <3>1 DEF SchedulerInv, CallsAwaited
        <3>3. wk' = [wk EXCEPT ![c.worker] = IF ok THEN IdleWorker ELSE [@ EXCEPT !.pc = "report"]]
            BY <2>2 DEF Reply
        <3>4. wk[c.worker] \in WorkerType BY <1>1, <3>1
        <3>5. CASE ok BY <1>1, <2>2, <3>1, <3>2, <3>3, <3>5 DEF IdleWorker, Reply
        <3>6. CASE ~ok BY <1>1, <2>2, <3>1, <3>2, <3>3, <3>4, <3>6 DEF WorkerType, Reply
        <3> QED BY <3>5, <3>6
    <2> QED BY <2>1, <2>2 DEF Reply, Proceed
<1>5. WorkersKnown'
    <2>1. SUFFICES ASSUME NEW v \in Workers, wk'[v].pc # "idle" PROVE AssignmentHolds(v)' BY DEF WorkersKnown
    <2>2. /\ wk[v].pc # "idle" /\ wk'[v].job = wk[v].job
          /\ wk'[v].pc = "busy" => wk[v].pc = "busy"
        BY <1>4, <2>1
    <2>3. AssignmentHolds(v) /\ wk[v].job \in JobIDs BY <2>2, JobTypes DEF KnownInv, WorkersKnown
    <2>4. wk[v].pc = "busy" => wk[v].job # c.job BY <2>3 DEF AssignmentHolds
    <2>5. wk[v].pc = "busy" => \A d \in calls' : d.job # wk[v].job BY <1>3, <2>3, <2>4 DEF AssignmentHolds
    <2> QED BY <2>2, <2>3, <2>5 DEF AssignmentHolds, DiskMoves
<1>6. ReportsKnown'
    <2>1. SUFFICES ASSUME NEW d \in calls' PROVE ReportHolds(d)' BY DEF ReportsKnown
    <2>2. CASE d \notin calls BY <1>2, <1>3, <2>2 DEF ReportHolds
    <2>3. CASE d \in calls
        <3>1. ReportHolds(d) BY <2>3 DEF KnownInv, ReportsKnown
        <3>2. CASE UNCHANGED wk BY <3>1, <3>2 DEF ReportHolds
        <3>3. CASE c.worker \in Workers /\ c \notin calls'
            <4>1. d.worker # c.worker BY <2>1, <2>3, <3>3 DEF SchedulerInv, CallsAwaited
            <4>2. status[d.job] = "running" => workerOf[d.job] # c.worker BY <1>2, <3>1, <3>3 DEF ReportHolds
            <4> QED BY <1>4, <3>1, <4>1, <4>2 DEF ReportHolds
        <3> QED BY <1>4, <3>2, <3>3
    <2> QED BY <2>2, <2>3
<1>7. IndexOwn' BY DEF KnownInv, IndexOwn, IsActive
<1> QED BY <1>5, <1>6, <1>7 DEF KnownInv

LEMMA UpdateJobEndKnown ==
    ASSUME SchedulerInv, KnownInv, NEW c \in calls, UpdateJobEnd(c) PROVE KnownInv'
<1> DEFINE s == IF c.ok THEN "succeeded" ELSE "failed"
<1>1. ReportHolds(c) /\ c.job \in JobIDs /\ c \in CallType
    BY JobTypes DEF KnownInv, ReportsKnown, SchedulerInv, TypeOK, ProcTypeOK
<1>2. EndJob(c.job, s) /\ Proceed(c, "ended") /\ UNCHANGED disk BY <1>1 DEF UpdateJobEnd, ReportHolds
<1>3. /\ status \in [JobIDs -> Statuses] /\ workerJobs \in [Workers -> JobIDs \cup {NoJob}]
    BY DEF SchedulerInv, TypeOK, WorkTypeOK
<1>4. /\ UNCHANGED <<workerOf, wk, disk>>
      /\ status' = [status EXCEPT ![c.job] = s]
      /\ workerJobs' = [workerJobs EXCEPT ![workerOf[c.job]] = NoJob]
    BY <1>2 DEF EndJob, Proceed
<1>5. s \in {"succeeded", "failed"} OBVIOUS
<1> HIDE DEF s
<1>6. status'[c.job] = s /\ \A j \in JobIDs : j # c.job => status'[j] = status[j] BY <1>1, <1>3, <1>4
<1>7. \A d \in calls' : d \in calls \/ (d.job = c.job /\ d.worker = c.worker) BY <1>1, <1>2 DEF Proceed, CallType
<1>8. WorkersKnown'
    <2>1. SUFFICES ASSUME NEW v \in Workers, wk[v].pc # "idle" PROVE AssignmentHolds(v)'
        BY <1>4 DEF WorkersKnown
    <2>2. AssignmentHolds(v) /\ wk[v].job \in JobIDs BY <2>1, JobTypes DEF KnownInv, WorkersKnown
    <2>3. wk[v].pc = "busy" => wk[v].job # c.job BY <2>2 DEF AssignmentHolds
    <2> QED BY <1>4, <1>5, <1>6, <1>7, <2>2, <2>3 DEF AssignmentHolds
<1>9. ReportsKnown'
    <2>1. SUFFICES ASSUME NEW d \in calls' PROVE ReportHolds(d)' BY DEF ReportsKnown
    <2>2. d.worker \in Workers => wk[d.worker].job = d.job
        BY <1>1, <1>7 DEF KnownInv, ReportsKnown, ReportHolds
    <2>3. CASE d.job = c.job BY <1>4, <1>5, <1>6, <2>2, <2>3 DEF ReportHolds
    <2>4. CASE d.job # c.job
        <3>1. d \in calls BY <1>7, <2>4
        <3>2. ReportHolds(d) /\ d.job \in JobIDs BY <3>1, JobTypes DEF KnownInv, ReportsKnown
        <3> QED BY <1>4, <1>6, <2>4, <3>2 DEF ReportHolds
    <2> QED BY <2>3, <2>4
<1>10. IndexOwn'
    <2>1. SUFFICES ASSUME NEW w \in Workers, workerJobs'[w] # NoJob
                   PROVE  status'[workerJobs'[w]] = "running" /\ workerOf[workerJobs'[w]] = w
        BY <1>4 DEF IndexOwn, IsActive
    <2>2. w # workerOf[c.job] /\ workerJobs'[w] = workerJobs[w] BY <1>3, <1>4, <2>1
    <2>3. IsActive(workerJobs[w]) /\ workerOf[workerJobs[w]] = w /\ workerJobs[w] \in JobIDs
        BY <2>1, <2>2, JobTypes DEF KnownInv, IndexOwn
    <2> QED BY <1>6, <2>2, <2>3 DEF IsActive
<1> QED BY <1>8, <1>9, <1>10 DEF KnownInv

LEMMA UpdateJobRecordKnown ==
    ASSUME SchedulerInv, KnownInv, NEW c \in calls, UpdateJobRecord(c) PROVE KnownInv'
<1>1. UNCHANGED <<status, workerOf, workerJobs>>
    BY DEF UpdateJobRecord, SetBatch, SetJobCompactionOutput, workVars, jobVars, indexVars
<1>2. status[c.job] # "running" BY DEF UpdateJobRecord, KnownInv, ReportsKnown, ReportHolds
<1>3. PICK m \in {FALSE, batches' # batches}, saved \in BOOLEAN :
         /\ disk' = Flushed(IF saved THEN {ShardOf[c.job]} ELSE {}, m)
         /\ IF saved /\ c.ok THEN Proceed(c, "flushed") ELSE Reply(c, saved)
    BY DEF UpdateJobRecord
<1>4. DiskMoves BY <1>3, FlushedMoves
<1> QED BY <1>1, <1>2, <1>3, <1>4, CallGoesOn

LEMMA UpdateJobApplyKnown ==
    ASSUME SchedulerInv, KnownInv, NEW c \in calls, UpdateJobApply(c) PROVE KnownInv'
<1>1. UNCHANGED <<status, workerOf, workerJobs, disk>> /\ Reply(c, TRUE)
    BY DEF UpdateJobApply, workVars, jobVars, indexVars
<1>2. status[c.job] # "running" BY DEF UpdateJobApply, KnownInv, ReportsKnown, ReportHolds
<1> QED BY <1>1, <1>2, SameDiskMoves, CallGoesOn

(***************************************************************************)
(* Prune forgets no job that a worker executes or reports, and a restart   *)
(* finds it in the files.                                                  *)
(***************************************************************************)
LEMMA MaintenanceTickKnown ==
    ASSUME SchedulerInv, KnownInv, "deadJob" \notin FaultKinds,
           NEW dead \in SUBSET {j \in JobIDs : IsActive(j)}, NEW old \in SUBSET Prunable,
           NEW due \in SUBSET Armed, MaintenanceTick(dead, old, due)
    PROVE  KnownInv'
<1>1. dead = {} BY DEF MaintenanceTick, Fault
<1>2. Prune({}, old) /\ UNCHANGED <<calls, wk, disk>> BY <1>1 DEF MaintenanceTick
<1>3. /\ status' = [j \in JobIDs |-> IF j \in old THEN "absent" ELSE status[j]]
      /\ workerOf' = [j \in JobIDs |-> IF j \in old THEN NoWorker ELSE workerOf[j]]
      /\ workerJobs' = [w \in Workers |-> workerJobs[w]]
    BY <1>2 DEF Prune
<1>4. \A j \in JobIDs : j \notin old => status'[j] = status[j] /\ workerOf'[j] = workerOf[j] BY <1>3
<1>5. /\ \A j \in old : status[j] # "running" /\ \A c \in calls : c.job # j
      /\ \A j \in old, w \in Workers : wk[w].pc \in {"report", "wait"} => wk[w].job # j
    BY DEF Prunable
<1>6. WorkersKnown'
    <2>1. SUFFICES ASSUME NEW w \in Workers, wk[w].pc # "idle" PROVE AssignmentHolds(w)'
        BY <1>2 DEF WorkersKnown
    <2>2. AssignmentHolds(w) /\ wk[w].job \in JobIDs BY <2>1, JobTypes DEF KnownInv, WorkersKnown
    <2>3. wk[w].pc \in {"busy", "report", "wait"} BY <2>1 DEF SchedulerInv, TypeOK, EnvTypeOK, WorkerType
    <2>4. wk[w].job \notin old BY <1>5, <2>2, <2>3 DEF AssignmentHolds
    <2> QED BY <1>2, <1>4, <2>2, <2>4 DEF AssignmentHolds
<1>7. ReportsKnown'
    <2>1. SUFFICES ASSUME NEW c \in calls PROVE ReportHolds(c)' BY <1>2 DEF ReportsKnown
    <2>2. ReportHolds(c) /\ c.job \in JobIDs /\ c.job \notin old
        BY <1>5, JobTypes DEF KnownInv, ReportsKnown
    <2> QED BY <1>2, <1>4, <2>2 DEF ReportHolds
<1>8. IndexOwn'
    <2>1. SUFFICES ASSUME NEW w \in Workers, workerJobs[w] # NoJob
                   PROVE  status'[workerJobs[w]] = "running" /\ workerOf'[workerJobs[w]] = w
        BY <1>3 DEF IndexOwn, IsActive
    <2>2. /\ status[workerJobs[w]] = "running" /\ workerOf[workerJobs[w]] = w /\ workerJobs[w] \in JobIDs
        BY <2>1, JobTypes DEF KnownInv, IndexOwn, IsActive
    <2> QED BY <1>4, <1>5, <2>2
<1> QED BY <1>6, <1>7, <1>8 DEF KnownInv

LEMMA RestartKnown ==
    ASSUME SchedulerInv, KnownInv, NEW graceful \in BOOLEAN, Restart(graceful) PROVE KnownInv'
<1> DEFINE d == IF graceful THEN Snapshot ELSE disk
<1>1. /\ disk' = d /\ status' = d.status /\ workerOf' = d.workerOf /\ calls' = {}
      /\ RebuildIndexes(d.status, d.workerOf, d.pending)
      /\ wk' = [w \in Workers |-> IF wk[w].pc = "wait" THEN [wk[w] EXCEPT !.pc = "report"] ELSE wk[w]]
    BY DEF Restart, LoadFromLocal
<1>2. \/ d.status = status /\ d.workerOf = workerOf
      \/ d.status = disk.status /\ d.workerOf = disk.workerOf
    BY DEF Snapshot
<1> HIDE DEF d
<1>3. WorkersKnown'
    <2>1. SUFFICES ASSUME NEW w \in Workers, wk'[w].pc # "idle" PROVE AssignmentHolds(w)' BY DEF WorkersKnown
    <2>2. wk[w] \in WorkerType BY DEF SchedulerInv, TypeOK, EnvTypeOK
    <2>3. /\ wk[w].pc # "idle" /\ wk'[w].job = wk[w].job
          /\ wk'[w].pc = "busy" => wk[w].pc = "busy"
        BY <1>1, <2>1, <2>2 DEF WorkerType
    <2>4. AssignmentHolds(w) BY <2>3 DEF KnownInv, WorkersKnown
    <2> QED BY <1>1, <1>2, <2>3, <2>4 DEF AssignmentHolds
<1>4. ReportsKnown' BY <1>1 DEF ReportsKnown
<1>5. IndexOwn'
    <2>1. SUFFICES ASSUME NEW w \in Workers, workerJobs'[w] # NoJob
                   PROVE  status'[workerJobs'[w]] = "running" /\ workerOf'[workerJobs'[w]] = w
        BY DEF IndexOwn, IsActive
    <2>2. workerJobs'[w] \in AnyHolder({j \in {i \in JobIDs : d.status[i] = "running"} : d.workerOf[j] = w})
        BY <1>1 DEF RebuildIndexes
    <2> QED BY <1>1, <2>1, <2>2 DEF AnyHolder
<1> QED BY <1>3, <1>4, <1>5 DEF KnownInv

LEMMA KnownStep ==
    ASSUME {"deadJob", "worker"} \cap FaultKinds = {}
    PROVE  SchedulerInv /\ KnownInv /\ [Next]_vars => KnownInv'
<1> SUFFICES ASSUME SchedulerInv, KnownInv, [Next]_vars PROVE KnownInv' OBVIOUS
<1>1. CASE ProviderStep BY <1>1, ProviderLeavesKnown
<1>2. ASSUME NEW w \in Workers, NextCall(w) PROVE KnownInv'
    BY <1>2, NextRedeliverKnown, NextDropKnown, NextAssignKnown DEF NextCall
<1>3. ASSUME NEW w \in Workers, Execute(w) \/ SendReport(w) \/ LoseReply(w) \/ WorkerCrash(w) PROVE KnownInv'
    <2>1. ~WorkerCrash(w) BY DEF WorkerCrash, Fault
    <2> QED BY <1>3, <2>1, ExecuteKnown, SendReportKnown, LoseReplyKnown
<1>4. ASSUME NEW c \in calls, UpdateJob(c) PROVE KnownInv'
    BY <1>4, UpdateJobEndKnown, UpdateJobRecordKnown, UpdateJobApplyKnown DEF UpdateJob
<1>5. ASSUME NEW c \in Clients, SubmitRedaction(c) PROVE KnownInv' BY <1>5, SubmissionLeavesKnown
<1>6. CASE MaintenanceStep
    <2>1. "deadJob" \notin FaultKinds OBVIOUS
    <2> QED BY <1>6, <2>1, MaintenanceTickKnown, RescanLeavesKnown DEF MaintenanceStep
<1>7. CASE Poll \/ UNCHANGED vars
    <2>1. UNCHANGED <<status, workerOf, workerJobs, calls, wk, disk>>
        BY <1>7 DEF Poll, vars, workVars, jobVars, indexVars, procVars, envVars
    <2> QED BY <2>1, KnownFrame, SameDiskMoves
<1>8. ASSUME NEW graceful \in BOOLEAN, Restart(graceful) PROVE KnownInv' BY <1>8, RestartKnown
<1> QED BY <1>1, <1>2, <1>3, <1>4, <1>5, <1>6, <1>7, <1>8 DEF Next

\* Unless a worker crashes or a running job is declared dead, the scheduler
\* knows the job of every worker that executes or reports one, whatever calls
\* are lost or repeated, whichever flushes fail and over every crash of the
\* scheduler: Next flushes a job before it hands it out, and Prune comes after
\* the last report.  With either of the two faults it fails: a job that was
\* declared dead is pruned under its worker.
THEOREM SchedulerWorkersJobIsKnown ==
    ASSUME {"deadJob", "worker"} \cap FaultKinds = {}
    PROVE  Spec => []WorkersJobIsKnown
<1>1. Init => KnownInv
    BY DEF Init, KnownInv, WorkersKnown, ReportsKnown, IndexOwn, IdleWorker
<1>2. SchedulerInv /\ KnownInv /\ [Next]_vars => KnownInv' BY KnownStep
<1>3. KnownInv => WorkersJobIsKnown
    BY DEF KnownInv, WorkersKnown, AssignmentHolds, WorkersJobIsKnown
<1> QED BY <1>1, <1>2, <1>3, SchedulerInvariant, PTL DEF Spec

-----------------------------------------------------------------------------
(***************************************************************************)
(* The compactions' inputs.  The busy-block index names, for each input of *)
(* a registered or running compaction, that compaction; so once the        *)
(* selector has dropped the busy blocks, what it holds is nobody's input.  *)
(***************************************************************************)
Compactions == {j \in registeredJobs \cup {n \in JobIDs : IsActive(n)} : kindOf(j) = "compaction"}

InputsIndexed ==
    \A j \in Compactions : \A b \in blocksOf(j) : runningBlocks[b] = j /\ BlockTenant[b] = tenantOf(j)

\* A compaction is registered for as long as it is in the pipeline.
RegisteredPiped == \A j \in JobIDs : kindOf(j) = "compaction" => (j \in registeredJobs <=> j \in piped)

Chosen == cprov.avail \cup cprov.input

SelectorOwn == cprov.pc # "idle" => \A b \in Chosen : BlockTenant[b] = cprov.tenant

SelectorFree ==
    /\ cprov.pc = "metas" => cprov.input = {}
    /\ cprov.pc \in {"select", "created"} =>
         /\ cprov.avail \cap cprov.input = {}
         /\ \A j \in Compactions : blocksOf(j) \cap Chosen = {}

DisjointInv == InputsIndexed /\ RegisteredPiped /\ SelectorOwn /\ SelectorFree

\* Steps that start no compaction and drop no entry of one that goes on.
LEMMA DisjointFrame ==
    ASSUME DisjointInv, UNCHANGED cprov, Compactions' \subseteq Compactions,
           \A j \in Compactions' : /\ blocksOf(j)' = blocksOf(j) /\ tenantOf(j)' = tenantOf(j)
                                   /\ \A b \in blocksOf(j) : runningBlocks'[b] = runningBlocks[b],
           RegisteredPiped'
    PROVE  DisjointInv'
<1>1. InputsIndexed' BY DEF DisjointInv, InputsIndexed
<1>2. SelectorOwn' BY DEF DisjointInv, SelectorOwn, Chosen
<1>3. SelectorFree' BY DEF DisjointInv, SelectorFree, Chosen
<1> QED BY <1>1, <1>2, <1>3 DEF DisjointInv

LEMMA DisjointSame ==
    ASSUME DisjointInv, UNCHANGED <<detail, status, registeredJobs, runningBlocks, piped, cprov>>
    PROVE  DisjointInv'
BY DEF DisjointInv, InputsIndexed, RegisteredPiped, SelectorOwn, SelectorFree, Chosen, Compactions, IsActive,
       kindOf, tenantOf, blocksOf

\* A compaction that is registered has no entry in any shard's Jobs.
LEMMA RegisteredAbsent ==
    ASSUME SchedulerInv, DisjointInv, NEW j \in registeredJobs, kindOf(j) = "compaction"
    PROVE  j \in JobIDs /\ j \in piped /\ status[j] = "absent"
<1>1. j \in JobIDs BY DEF SchedulerInv, TypeOK, WorkTypeOK
<1>2. j \in piped BY <1>1 DEF DisjointInv, RegisteredPiped
<1> QED BY <1>1, <1>2 DEF SchedulerInv, JobInOnePlace, Known

LEMMA SelectorDisjoint ==
    ASSUME SchedulerInv, DisjointInv,
           (\E t \in Tenants : PrepareNextTenant(t)) \/ NewBlockSelector \/ CreateJob \/ ResetTenant
    PROVE  DisjointInv'
<1>1. UNCHANGED <<detail, status, registeredJobs, runningBlocks, piped>>
    BY DEF PrepareNextTenant, NewBlockSelector, CreateJob, ResetTenant, workVars, jobVars, indexVars
<1>2. /\ Compactions' = Compactions /\ InputsIndexed' /\ RegisteredPiped'
      /\ \A j : blocksOf(j)' = blocksOf(j) /\ tenantOf(j)' = tenantOf(j)
    BY <1>1 DEF DisjointInv, InputsIndexed, RegisteredPiped, Compactions, IsActive, kindOf, tenantOf, blocksOf
<1>3. cprov \in ProviderType BY DEF SchedulerInv, TypeOK, ProcTypeOK
<1>4. CASE \E t \in Tenants : PrepareNextTenant(t)
    <2>1. PICK t \in Tenants : cprov' = [pc |-> "metas", tenant |-> t, avail |-> BlockMetas(t), input |-> {}]
        BY <1>4 DEF PrepareNextTenant
    <2> QED BY <1>2, <2>1 DEF DisjointInv, SelectorOwn, SelectorFree, Chosen, BlockMetas
<1>5. CASE NewBlockSelector
    <2>1. /\ cprov.pc = "metas" /\ cprov' = [cprov EXCEPT !.pc = "select", !.avail = @ \ BusyBlocks(cprov.tenant)]
        BY <1>5 DEF NewBlockSelector
    <2>2. /\ cprov'.pc = "select" /\ cprov'.tenant = cprov.tenant /\ cprov'.input = cprov.input
          /\ cprov'.avail = cprov.avail \ BusyBlocks(cprov.tenant)
        BY <1>3, <2>1 DEF ProviderType
    <2>3. ASSUME NEW j \in Compactions, NEW b \in blocksOf(j), b \in cprov.avail
          PROVE  b \in BusyBlocks(cprov.tenant)
        <3>1. b \in Blocks /\ BlockTenant[b] = cprov.tenant
            BY <1>3, <2>1, <2>3 DEF DisjointInv, SelectorOwn, Chosen, ProviderType
        <3>2. runningBlocks[b] = j /\ tenantOf(j) = cprov.tenant BY <3>1 DEF DisjointInv, InputsIndexed
        <3>3. j \in JobIDs BY DEF Compactions, SchedulerInv, TypeOK, WorkTypeOK
        <3> QED BY <3>1, <3>2, <3>3, WorkAssumption DEF BusyBlocks
    <2>4. cprov.input = {} BY <2>1 DEF DisjointInv, SelectorFree
    <2> QED BY <1>2, <2>1, <2>2, <2>3, <2>4 DEF DisjointInv, SelectorOwn, SelectorFree, Chosen
<1>6. CASE CreateJob
    <2>1. PICK input \in SUBSET cprov.avail :
              cprov' = [cprov EXCEPT !.pc = "created", !.avail = @ \ input, !.input = input]
        BY <1>6 DEF CreateJob
    <2>2. /\ cprov.pc = "select" /\ cprov'.pc = "created" /\ cprov'.tenant = cprov.tenant
          /\ cprov'.avail = cprov.avail \ input /\ cprov'.input = input
        BY <1>3, <1>6, <2>1 DEF CreateJob, ProviderType
    <2> QED BY <1>2, <2>2 DEF DisjointInv, SelectorOwn, SelectorFree, Chosen
<1>7. CASE ResetTenant
    <2>1. cprov'.pc = "idle" BY <1>7 DEF ResetTenant, IdleProvider
    <2> QED BY <1>2, <2>1 DEF DisjointInv, SelectorOwn, SelectorFree
<1> QED BY <1>4, <1>5, <1>6, <1>7

\* The inputs of the new compaction leave the selector and enter the index.
LEMMA RegisterCompactionDisjoint ==
    ASSUME SchedulerInv, DisjointInv, RegisterCompaction PROVE DisjointInv'
<1> DEFINE d == [kind |-> "compaction", tenant |-> cprov.tenant, blocks |-> cprov.input, dryRun |-> FALSE]
<1>1. PICK j \in NewJobs : RegisterJob(j, d) /\ piped' = piped \cup {j} BY DEF RegisterCompaction
<1>2. d.kind = "compaction" /\ d.tenant = cprov.tenant /\ d.blocks = cprov.input OBVIOUS
<1> HIDE DEF d
<1>3. /\ detail' = [detail EXCEPT ![j] = d] /\ registeredJobs' = registeredJobs \cup {j} /\ UNCHANGED status
      /\ runningBlocks' = [b \in Blocks |-> IF b \in cprov.input THEN j ELSE runningBlocks[b]]
    BY <1>1, <1>2 DEF RegisterJob, AddRunningBlocks
<1>4. /\ j \in JobIDs /\ j \notin piped /\ status[j] = "absent"
      /\ cprov \in ProviderType /\ detail \in [JobIDs -> Detail]
    BY DEF NewJobs, SchedulerInv, TypeOK, WorkTypeOK, ProcTypeOK, JobInOnePlace, Known
<1>5. cprov.pc = "created" /\ cprov'.pc = "select" /\ cprov'.tenant = cprov.tenant
      /\ cprov'.avail = cprov.avail /\ cprov'.input = {}
    BY <1>4 DEF RegisterCompaction, ProviderType
<1>6. /\ detail'[j] = d /\ \A i : i # j => kindOf(i)' = kindOf(i) /\ tenantOf(i)' = tenantOf(i) /\ blocksOf(i)' = blocksOf(i)
    BY <1>3, <1>4 DEF kindOf, tenantOf, blocksOf
<1>7. Compactions' \subseteq Compactions \cup {j}
    BY <1>3, <1>6 DEF Compactions, IsActive
<1>8. InputsIndexed'
    <2>1. SUFFICES ASSUME NEW i \in Compactions', NEW b \in blocksOf(i)'
                   PROVE  runningBlocks'[b] = i /\ BlockTenant[b] = tenantOf(i)'
        BY DEF InputsIndexed
    <2>2. CASE i = j
        <3>1. b \in cprov.input /\ b \in Blocks /\ BlockTenant[b] = cprov.tenant
            BY <1>2, <1>4, <1>5, <1>6, <2>1, <2>2 DEF blocksOf, DisjointInv, SelectorOwn, Chosen, ProviderType
        <3> QED BY <1>2, <1>3, <1>6, <2>2, <3>1 DEF tenantOf
    <2>3. CASE i # j
        <3>1. i \in Compactions /\ b \in blocksOf(i) /\ tenantOf(i)' = tenantOf(i) BY <1>6, <1>7, <2>1, <2>3
        <3>2. b \notin cprov.input BY <1>5, <3>1 DEF DisjointInv, SelectorFree, Chosen
        <3>3. b \in Blocks
            <4>1. i \in JobIDs BY <3>1 DEF Compactions, SchedulerInv, TypeOK, WorkTypeOK
            <4> QED BY <1>4, <3>1, <4>1 DEF blocksOf, Detail
        <3> QED BY <1>3, <3>1, <3>2, <3>3 DEF DisjointInv, InputsIndexed
    <2> QED BY <2>2, <2>3
<1>9. RegisteredPiped' BY <1>1, <1>3, <1>6 DEF DisjointInv, RegisteredPiped
<1>10. SelectorOwn' BY <1>5 DEF DisjointInv, SelectorOwn, Chosen
<1>11. SelectorFree'
    <2>1. SUFFICES ASSUME NEW i \in Compactions' PROVE blocksOf(i)' \cap cprov.avail = {}
        BY <1>5 DEF SelectorFree, Chosen
    <2>2. CASE i = j BY <1>2, <1>5, <1>6, <2>2 DEF blocksOf, DisjointInv, SelectorFree
    <2>3. CASE i # j BY <1>5, <1>6, <1>7, <2>3 DEF DisjointInv, SelectorFree, Chosen
    <2> QED BY <2>2, <2>3
<1> QED BY <1>8, <1>9, <1>10, <1>11 DEF DisjointInv

LEMMA CompactionTypes ==
    ASSUME SchedulerInv
    PROVE  /\ \A j \in JobIDs : blocksOf(j) \subseteq Blocks
           /\ \A j \in Compactions : j \in JobIDs /\ kindOf(j) = "compaction"
           /\ piped \subseteq JobIDs /\ registeredJobs \subseteq JobIDs
BY DEF SchedulerInv, TypeOK, WorkTypeOK, ProcTypeOK, Compactions, blocksOf, Detail

LEMMA EmitRetentionDisjoint ==
    ASSUME SchedulerInv, DisjointInv, NEW t \in Tenants, EmitRetentionJob(t) PROVE DisjointInv'
<1> DEFINE d == [kind |-> "retention", tenant |-> t, blocks |-> {}, dryRun |-> FALSE]
<1>1. PICK j \in NewJobs : RegisterJob(j, d) /\ piped' = piped \cup {j} BY DEF EmitRetentionJob
<1>2. d.kind = "retention" /\ d.blocks = {} OBVIOUS
<1> HIDE DEF d
<1>3. /\ detail' = [detail EXCEPT ![j] = d] /\ registeredJobs' = registeredJobs \cup {j} /\ UNCHANGED <<status, cprov>>
      /\ runningBlocks' = [b \in Blocks |-> runningBlocks[b]]
    BY <1>1, <1>2 DEF RegisterJob, AddRunningBlocks, EmitRetentionJob
<1>4. j \in JobIDs /\ detail \in [JobIDs -> Detail] BY DEF NewJobs, SchedulerInv, TypeOK, WorkTypeOK
<1>5. kindOf(j)' # "compaction" BY <1>2, <1>3, <1>4 DEF kindOf
<1>6. \A i : i # j => kindOf(i)' = kindOf(i) /\ tenantOf(i)' = tenantOf(i) /\ blocksOf(i)' = blocksOf(i)
    BY <1>3, <1>4 DEF kindOf, tenantOf, blocksOf
<1>7. \A i \in Compactions' : i \in Compactions /\ i # j BY <1>3, <1>5, <1>6 DEF Compactions, IsActive
<1>8. RegisteredPiped' BY <1>1, <1>3, <1>5, <1>6 DEF DisjointInv, RegisteredPiped
<1>9. \A i \in Compactions' : \A b \in blocksOf(i) : runningBlocks'[b] = runningBlocks[b]
    BY <1>3, <1>7, CompactionTypes
<1> QED BY <1>3, <1>6, <1>7, <1>8, <1>9, DisjointFrame

LEMMA DrainDisjoint == ASSUME SchedulerInv, DisjointInv, DrainPending PROVE DisjointInv'
<1>1. PICK j \in pending : NextPendingJob(j) /\ piped' = piped \cup {j} BY DEF DrainPending
<1>2. UNCHANGED <<detail, status, registeredJobs, runningBlocks, cprov>>
    BY <1>1 DEF DrainPending, NextPendingJob
<1>3. kindOf(j) = "redaction" BY DEF SchedulerInv, PendingAreRedactions
<1>4. RegisteredPiped' BY <1>1, <1>2, <1>3 DEF DisjointInv, RegisteredPiped, kindOf
<1> QED BY <1>2, <1>4, DisjointFrame DEF Compactions, IsActive, kindOf, tenantOf, blocksOf

LEMMA NextCallDisjoint ==
    ASSUME SchedulerInv, DisjointInv, NEW w \in Workers, NextCall(w) PROVE DisjointInv'
<1>1. CASE NextRedeliver(w)
    BY <1>1, DisjointSame DEF NextRedeliver, workVars, jobVars, indexVars, procVars
<1>2. ASSUME NEW j \in piped, NextDrop(w, j) PROVE DisjointInv'
    <2>1. UNCHANGED <<detail, status, registeredJobs, runningBlocks, cprov>> /\ piped' = piped \ {j}
          /\ kindOf(j) # "compaction"
        BY <1>2 DEF NextDrop, ReleaseRedactionInFlight, workVars, jobVars, indexVars
    <2>2. RegisteredPiped' BY <2>1 DEF DisjointInv, RegisteredPiped, kindOf
    <2> QED BY <2>1, <2>2, DisjointFrame DEF Compactions, IsActive, kindOf, tenantOf, blocksOf
<1>3. ASSUME NEW j \in piped, NextAssign(w, j) PROVE DisjointInv'
    <2>1. /\ detail' = [detail EXCEPT ![j] = Injected(j)] /\ status' = [status EXCEPT ![j] = "running"]
          /\ registeredJobs' = registeredJobs \ {j} /\ piped' = piped \ {j}
          /\ UNCHANGED <<runningBlocks, cprov>>
        BY <1>3 DEF NextAssign, AddJob
    <2>2. j \in JobIDs /\ detail \in [JobIDs -> Detail] /\ status \in [JobIDs -> Statuses]
        BY DEF SchedulerInv, TypeOK, WorkTypeOK, ProcTypeOK
    <2>3. /\ Injected(j).kind = kindOf(j) /\ Injected(j).tenant = tenantOf(j) /\ Injected(j).blocks = blocksOf(j)
        <3>1. detail[j] \in Detail BY <2>2
        <3> QED BY <3>1 DEF Injected, Detail, kindOf, tenantOf, blocksOf
    <2>4. \A i \in JobIDs : kindOf(i)' = kindOf(i) /\ tenantOf(i)' = tenantOf(i) /\ blocksOf(i)' = blocksOf(i)
        BY <2>1, <2>2, <2>3 DEF kindOf, tenantOf, blocksOf
    <2>5. ASSUME NEW i \in Compactions' PROVE i \in Compactions /\ i \in JobIDs
        <3>1. i \in JobIDs BY <2>1, <2>5, CompactionTypes DEF Compactions
        <3>2. kindOf(i) = "compaction" BY <2>4, <2>5, <3>1 DEF Compactions
        <3>3. CASE i = j BY <3>1, <3>2, <3>3 DEF DisjointInv, RegisteredPiped, Compactions
        <3>4. CASE i # j BY <2>1, <2>2, <2>5, <3>1, <3>2, <3>4 DEF Compactions, IsActive
        <3> QED BY <3>3, <3>4
    <2>6. RegisteredPiped' BY <2>1, <2>4 DEF DisjointInv, RegisteredPiped
    <2> QED BY <2>1, <2>4, <2>5, <2>6, DisjointFrame
<1> QED BY <1>1, <1>2, <1>3 DEF NextCall

\* EndJob takes only the entries of the job that ends.
LEMMA UpdateJobEndDisjoint ==
    ASSUME SchedulerInv, DisjointInv, NEW c \in calls, UpdateJobEnd(c) PROVE DisjointInv'
<1> DEFINE s == IF c.ok THEN "succeeded" ELSE "failed"
<1>1. c.job \in JobIDs /\ status \in [JobIDs -> Statuses]
    BY JobTypes DEF SchedulerInv, TypeOK, WorkTypeOK
<1>2. UNCHANGED <<piped, cprov>> BY DEF UpdateJobEnd
<1>3. CASE status[c.job] = "absent"
    BY <1>2, <1>3, DisjointSame DEF UpdateJobEnd, workVars, jobVars, indexVars
<1>4. CASE status[c.job] # "absent"
    <2>1. EndJob(c.job, s) BY <1>4 DEF UpdateJobEnd
    <2>2. s # "running" OBVIOUS
    <2> HIDE DEF s
    <2>3. /\ status' = [status EXCEPT ![c.job] = s] /\ UNCHANGED <<detail, registeredJobs>>
          /\ runningBlocks' = [b \in Blocks |-> IF b \in blocksOf(c.job) /\ runningBlocks[b] = c.job
                                                THEN NoJob ELSE runningBlocks[b]]
        BY <2>1 DEF EndJob, RemoveRunningBlocks
    <2>4. ASSUME NEW i \in Compactions' PROVE i \in Compactions /\ i # c.job
        <3>1. i \in Compactions BY <1>1, <2>2, <2>3, <2>4 DEF Compactions, IsActive, kindOf
        <3>2. i = c.job => i \in registeredJobs BY <1>1, <2>2, <2>3, <2>4 DEF Compactions, IsActive
        <3> QED BY <1>4, <3>1, <3>2, RegisteredAbsent, CompactionTypes
    <2>5. \A i \in Compactions' : \A b \in blocksOf(i) : runningBlocks'[b] = runningBlocks[b]
        BY <2>3, <2>4, CompactionTypes DEF DisjointInv, InputsIndexed
    <2>6. RegisteredPiped' BY <1>2, <2>3 DEF DisjointInv, RegisteredPiped, kindOf
    <2> QED BY <1>2, <2>3, <2>4, <2>5, <2>6, DisjointFrame DEF tenantOf, blocksOf
<1> QED BY <1>3, <1>4

LEMMA UpdateJobRestDisjoint ==
    ASSUME SchedulerInv, DisjointInv, NEW c \in calls, UpdateJobRecord(c) \/ UpdateJobApply(c)
    PROVE  DisjointInv'
<1>1. UNCHANGED <<detail, status, registeredJobs, runningBlocks, piped, cprov>>
    BY DEF UpdateJobRecord, UpdateJobApply, SetBatch, SetJobCompactionOutput, workVars, jobVars, indexVars
<1> QED BY <1>1, DisjointSame

LEMMA WorkerDisjoint ==
    ASSUME SchedulerInv, DisjointInv, NEW w \in Workers,
           Execute(w) \/ SendReport(w) \/ LoseReply(w) \/ WorkerCrash(w)
    PROVE  DisjointInv'
<1>1. UNCHANGED <<detail, status, registeredJobs, runningBlocks, piped, cprov>>
    BY DEF Execute, SendReport, LoseReply, WorkerCrash, workVars, jobVars, indexVars, procVars
<1> QED BY <1>1, DisjointSame

\* AddPendingJobs makes redaction jobs only.
LEMMA EnqueueDisjoint ==
    ASSUME SchedulerInv, DisjointInv, NEW t, NEW f, AddPendingJobs(f, t), UNCHANGED <<piped, cprov>>
    PROVE  DisjointInv'
<1> DEFINE new(j) == \E b \in DOMAIN f : f[b] = j
<1>1. UNCHANGED <<status, registeredJobs, runningBlocks>> BY DEF AddPendingJobs
<1>2. \A j \in JobIDs : IF new(j) THEN kindOf(j)' = "redaction"
                        ELSE kindOf(j)' = kindOf(j) /\ tenantOf(j)' = tenantOf(j) /\ blocksOf(j)' = blocksOf(j)
    BY DEF AddPendingJobs, kindOf, tenantOf, blocksOf
<1> HIDE DEF new
<1>3. ASSUME NEW j \in Compactions' PROVE j \in Compactions /\ j \in JobIDs /\ ~new(j)
    <2>1. j \in JobIDs /\ kindOf(j)' = "compaction" BY <1>1, <1>3, CompactionTypes DEF Compactions
    <2>2. ~new(j) BY <1>2, <2>1
    <2> QED BY <1>1, <1>2, <1>3, <2>1, <2>2 DEF Compactions, IsActive
<1>4. RegisteredPiped' BY <1>1, <1>2 DEF DisjointInv, RegisteredPiped
<1> QED BY <1>1, <1>2, <1>3, <1>4, DisjointFrame

LEMMA SubmissionDisjoint ==
    ASSUME SchedulerInv, DisjointInv, NEW c \in Clients, SubmitRedaction(c) PROVE DisjointInv'
<1>1. ASSUME (\E t \in Tenants, m \in Modes : SubmitSnapshot(c, t, m)) \/ SubmitAddBatch(c)
      PROVE  UNCHANGED <<detail, status, registeredJobs, runningBlocks, piped, cprov>>
    BY <1>1 DEF SubmitSnapshot, SubmitAddBatch, SetBatch, workVars, jobVars, indexVars
<1>2. CASE SubmitEnqueue(c) BY <1>2, EnqueueDisjoint DEF SubmitEnqueue
<1> QED BY <1>1, <1>2, DisjointSame DEF SubmitRedaction

\* Prune takes only the entries of the jobs it declares dead.
LEMMA MaintenanceTickDisjoint ==
    ASSUME SchedulerInv, DisjointInv, NEW dead \in SUBSET {j \in JobIDs : IsActive(j)}, NEW old \in SUBSET Prunable,
           NEW due \in SUBSET Armed, MaintenanceTick(dead, old, due)
    PROVE  DisjointInv'
<1>1. /\ UNCHANGED <<detail, registeredJobs, piped, cprov>>
      /\ status' = [j \in JobIDs |-> IF j \in dead THEN "failed" ELSE IF j \in old THEN "absent" ELSE status[j]]
      /\ runningBlocks' = [b \in Blocks |->
                             IF runningBlocks[b] \in dead /\ b \in blocksOf(runningBlocks[b])
                             THEN NoJob ELSE runningBlocks[b]]
    BY DEF MaintenanceTick, Prune
<1>2. ASSUME NEW i \in Compactions' PROVE i \in Compactions /\ i \notin dead
    <2>1. i \in Compactions BY <1>1, <1>2 DEF Compactions, IsActive, kindOf
    <2>2. i \in dead => i \in registeredJobs /\ status[i] = "running" BY <1>1, <1>2 DEF Compactions, IsActive
    <2> QED BY <2>1, <2>2, RegisteredAbsent, CompactionTypes
<1>3. \A i \in Compactions' : \A b \in blocksOf(i) : runningBlocks'[b] = runningBlocks[b]
    BY <1>1, <1>2, CompactionTypes DEF DisjointInv, InputsIndexed
<1>4. RegisteredPiped' BY <1>1 DEF DisjointInv, RegisteredPiped, kindOf
<1> QED BY <1>1, <1>2, <1>3, <1>4, DisjointFrame DEF tenantOf, blocksOf

LEMMA RescanDisjoint ==
    ASSUME SchedulerInv, DisjointInv,
           (\E t \in Tenants : RescanBegin(t)) \/ RescanRound \/ RescanCommit \/ RescanEnqueue \/ CleanupOrphanedBatches
    PROVE  DisjointInv'
<1>1. ASSUME (\E t \in Tenants : RescanBegin(t)) \/ RescanRound \/ RescanCommit \/ CleanupOrphanedBatches
      PROVE  UNCHANGED <<detail, status, registeredJobs, runningBlocks, piped, cprov>>
    BY <1>1 DEF RescanBegin, RescanRound, RescanCommit, CleanupOrphanedBatches, SetBatch, workVars, jobVars, indexVars
<1>2. CASE RescanEnqueue BY <1>2, EnqueueDisjoint DEF RescanEnqueue
<1> QED BY <1>1, <1>2, DisjointSame

\* Only a restart sets restarted.
LEMMA StaysUp ==
    ASSUME [Next]_vars, ~\E graceful \in BOOLEAN : Restart(graceful)
    PROVE  UNCHANGED restarted
<1>1. ASSUME ProviderStep PROVE UNCHANGED restarted
    BY <1>1 DEF ProviderStep, PrepareNextTenant, NewBlockSelector, CreateJob, ResetTenant,
                RegisterCompaction, EmitRetentionJob, DrainPending, envVars
<1>2. ASSUME NEW w \in Workers, NextCall(w) \/ Execute(w) \/ SendReport(w) \/ LoseReply(w) \/ WorkerCrash(w)
      PROVE  UNCHANGED restarted
    BY <1>2 DEF NextCall, NextRedeliver, NextDrop, NextAssign, Execute, SendReport, LoseReply, WorkerCrash,
                envVars
<1>3. ASSUME NEW c \in calls, UpdateJob(c) PROVE UNCHANGED restarted
    BY <1>3 DEF UpdateJob, UpdateJobEnd, UpdateJobRecord, UpdateJobApply
<1>4. ASSUME NEW c \in Clients, SubmitRedaction(c) PROVE UNCHANGED restarted
    BY <1>4 DEF SubmitRedaction, SubmitSnapshot, SubmitAddBatch, SubmitEnqueue, envVars
<1>5. ASSUME MaintenanceStep PROVE UNCHANGED restarted
    BY <1>5 DEF MaintenanceStep, MaintenanceTick, RescanBegin, RescanRound, RescanCommit, RescanEnqueue,
                CleanupOrphanedBatches, envVars
<1>6. ASSUME Poll \/ UNCHANGED vars PROVE UNCHANGED restarted BY <1>6 DEF Poll, vars, envVars
<1> QED BY <1>1, <1>2, <1>3, <1>4, <1>5, <1>6 DEF Next

LEMMA DisjointStep == SchedulerInv /\ (restarted \/ DisjointInv) /\ [Next]_vars => (restarted \/ DisjointInv)'
<1> SUFFICES ASSUME SchedulerInv, restarted \/ DisjointInv, [Next]_vars PROVE restarted' \/ DisjointInv'
    OBVIOUS
<1>1. CASE \E graceful \in BOOLEAN : Restart(graceful) BY <1>1 DEF Restart
<1>2. CASE ~\E graceful \in BOOLEAN : Restart(graceful)
    <2>1. UNCHANGED restarted BY <1>2, StaysUp
    <2>2. SUFFICES ASSUME DisjointInv PROVE DisjointInv' BY <2>1
    <2>3. ASSUME ProviderStep PROVE DisjointInv'
        BY <2>2, <2>3, SelectorDisjoint, RegisterCompactionDisjoint, EmitRetentionDisjoint, DrainDisjoint DEF ProviderStep
    <2>4. ASSUME NEW w \in Workers, NextCall(w) \/ Execute(w) \/ SendReport(w) \/ LoseReply(w) \/ WorkerCrash(w)
          PROVE  DisjointInv'
        BY <2>2, <2>4, NextCallDisjoint, WorkerDisjoint
    <2>5. ASSUME NEW c \in calls, UpdateJob(c) PROVE DisjointInv'
        BY <2>2, <2>5, UpdateJobEndDisjoint, UpdateJobRestDisjoint DEF UpdateJob
    <2>6. ASSUME NEW c \in Clients, SubmitRedaction(c) PROVE DisjointInv' BY <2>2, <2>6, SubmissionDisjoint
    <2>7. ASSUME MaintenanceStep PROVE DisjointInv'
        BY <2>2, <2>7, MaintenanceTickDisjoint, RescanDisjoint DEF MaintenanceStep
    <2>8. ASSUME Poll \/ UNCHANGED vars PROVE DisjointInv'
        BY <2>2, <2>8, DisjointSame DEF Poll, vars, workVars, jobVars, indexVars, procVars
    <2> QED BY <1>2, <2>3, <2>4, <2>5, <2>6, <2>7, <2>8 DEF Next
<1> QED BY <1>1, <1>2

\* Until the scheduler restarts, no block is the input of two compactions that
\* are registered or running, although the selector reads the blocklist, the
\* busy blocks and the batch at three moments: registration and selection are
\* of one goroutine, and an input stays indexed from RegisterJob to EndJob or
\* Prune.  It fails after a crash, which brings back a compaction that had
\* ended and whose end no flush had written.
THEOREM SchedulerCompactionsDisjoint == Spec => [](restarted \/ CompactionsDisjoint)
<1>1. Init => restarted \/ DisjointInv
    BY DEF Init, DisjointInv, InputsIndexed, RegisteredPiped, SelectorOwn, SelectorFree, Compactions, IsActive,
           IdleProvider
<1>2. DisjointInv => CompactionsDisjoint
    BY DEF DisjointInv, InputsIndexed, CompactionsDisjoint, Compactions
<1> QED BY <1>1, <1>2, DisjointStep, SchedulerInvariant, PTL DEF Spec

-----------------------------------------------------------------------------
(***************************************************************************)
(* Redaction jobs and their batch, for apply-mode requests.  A batch that  *)
(* covers a job in play cannot go away, since both cleanupBatchIfDone and  *)
(* advanceQuiescence see the job in the exact counters.  Between AddBatch  *)
(* and AddPendingJobs there is no job to see: then the batch must outlast  *)
(* the sweeps that may still come before the submission goes on.           *)
(***************************************************************************)
InPlay == pending \cup piped \cup {j \in JobIDs : IsActive(j)}

Covered(t) == batches[t] # NoBatch

ApplyOnly ==
    /\ \A t \in Tenants : Covered(t) => ~batches[t].dryRun
    /\ \A c \in Clients : ~sub[c].dryRun

JobsCovered == \A j \in InPlay : kindOf(j) = "redaction" => Covered(tenantOf(j))

\* The sweep of the tick that is running, and that of the one tick that may
\* still start before the submission has made its jobs pending.
SweepsLeft(c) == (IF maint.pc = "idle" THEN 0 ELSE 1) + (IF sub[c].ticks = 0 THEN 1 ELSE 0)

Outlasts(b, n) == b # NoBatch /\ (b.quiesce = 0 \/ b.quiesce > n)

SubmissionsCovered == \A c \in Clients : sub[c].pc = "added" => Outlasts(batches[sub[c].tenant], SweepsLeft(c))

RescanCovered ==
    /\ maint.pc \in {"rescan", "commit"} => maint.tenant \in maint.due
    /\ maint.pc = "enqueue" => Covered(maint.tenant)

CoveredInv == ApplyOnly /\ JobsCovered /\ SubmissionsCovered /\ RescanCovered

LEMMA SweepsLeftBound == ASSUME NEW c PROVE SweepsLeft(c) \in {0, 1, 2}
BY DEF SweepsLeft

LEMMA InPlayTypes ==
    ASSUME SchedulerInv PROVE InPlay \subseteq JobIDs /\ \A j \in JobIDs : tenantOf(j) \in Tenants
BY DEF InPlay, SchedulerInv, TypeOK, WorkTypeOK, ProcTypeOK, tenantOf, Detail

\* Steps that bring no redaction job into play and change no batch.
LEMMA CoveredFrame ==
    ASSUME CoveredInv, UNCHANGED <<batches, sub, maint>>,
           \A j \in InPlay' : kindOf(j)' = "redaction"
             => j \in InPlay /\ kindOf(j) = "redaction" /\ tenantOf(j)' = tenantOf(j)
    PROVE  CoveredInv'
BY DEF CoveredInv, ApplyOnly, JobsCovered, SubmissionsCovered, RescanCovered, Covered, SweepsLeft

LEMMA CoveredSame ==
    ASSUME CoveredInv, UNCHANGED <<detail, status, pending, piped, batches, sub, maint>> PROVE CoveredInv'
BY CoveredFrame DEF InPlay, IsActive, kindOf, tenantOf

\* A batch that goes on, or starts its quiescence after a redaction.
KeptBatch(b, n) == b # NoBatch => /\ n # NoBatch /\ n.dryRun = b.dryRun
                                  /\ n.quiesce \in {b.quiesce, QuiescenceSweeps + 1}

LEMMA CleanupKeepsBatch ==
    ASSUME NEW b \in Batch \cup {NoBatch}, NEW t, b # NoBatch => ~b.dryRun
    PROVE  /\ KeptBatch(b, cleanupBatchIfDone(b, t))
           /\ b = NoBatch => cleanupBatchIfDone(b, t) = NoBatch
<1>1. CASE b = NoBatch BY <1>1 DEF KeptBatch, cleanupBatchIfDone
<1>2. CASE b # NoBatch
    <2>1. b \in Batch /\ [b EXCEPT !.quiesce = QuiescenceSweeps + 1] \in Batch
        BY <1>2 DEF Batch, QuiescenceSweeps
    <2>2. [b EXCEPT !.quiesce = QuiescenceSweeps + 1].dryRun = b.dryRun
          /\ [b EXCEPT !.quiesce = QuiescenceSweeps + 1].quiesce = QuiescenceSweeps + 1
        BY <2>1 DEF Batch
    <2>3. cleanupBatchIfDone(b, t) \in {b, [b EXCEPT !.quiesce = QuiescenceSweeps + 1]}
        BY <1>2 DEF cleanupBatchIfDone
    <2>4. b # NoBatch /\ [b EXCEPT !.quiesce = QuiescenceSweeps + 1] # NoBatch
        BY <1>2, <2>1, BatchAssumption
    <2> QED BY <1>2, <2>2, <2>3, <2>4 DEF KeptBatch
<1> QED BY <1>1, <1>2

\* A redaction job in play is seen by HasJobsForTenant, because its counters
\* are exact.
LEMMA InPlayIsSeen ==
    ASSUME SchedulerInv, NEW j \in InPlay, kindOf(j) = "redaction"
    PROVE  HasJobsForTenant(tenantOf(j), "redaction")
<1> DEFINE t == tenantOf(j)
<1>1. t \in Tenants /\ j \in JobIDs BY InPlayTypes
<1>2. CASE j \in pending BY <1>2 DEF HasJobsForTenant, JobsOf
<1>3. CASE j \in piped
    <2>1. IsFiniteSet(JobsOf(piped, t, "redaction")) /\ Cardinality(JobsOf(piped, t, "redaction")) \in Nat
        BY ActiveFinite DEF SchedulerInv, TypeOK, ProcTypeOK
    <2>2. JobsOf(piped, t, "redaction") # {} BY <1>3 DEF JobsOf
    <2>3. Cardinality(JobsOf(piped, t, "redaction")) > 0 BY <2>1, <2>2, FS_EmptySet
    <2>4. redactionInFlight[t] > 0 BY <1>1, <2>3 DEF SchedulerInv, CountsExact, InFlightExact
    <2> QED BY <2>4 DEF HasJobsForTenant
<1>4. CASE IsActive(j)
    <2>1. IsFiniteSet(ActiveJobs(t, "redaction")) /\ Cardinality(ActiveJobs(t, "redaction")) \in Nat
        BY ActiveIsFinite
    <2>2. ActiveJobs(t, "redaction") # {} BY <1>1, <1>4 DEF ActiveJobs, JobsOf
    <2>3. Cardinality(ActiveJobs(t, "redaction")) > 0 BY <2>1, <2>2, FS_EmptySet
    <2>4. runningByTenant[t]["redaction"] > 0
        BY <1>1, <2>3 DEF SchedulerInv, CountsExact, RunningExact, Kinds
    <2> QED BY <2>4 DEF HasJobsForTenant
<1> QED BY <1>2, <1>3, <1>4 DEF InPlay

LEMMA CoveredTypes ==
    ASSUME SchedulerInv
    PROVE  /\ batches \in [Tenants -> Batch \cup {NoBatch}]
           /\ sub \in [Clients -> ClientType] /\ \A c \in Clients : sub[c].tenant \in Tenants
           /\ maint \in TickType /\ maint.tenant \in Tenants /\ maint.due \subseteq Tenants
<1>1. /\ batches \in [Tenants -> Batch \cup {NoBatch}] /\ sub \in [Clients -> ClientType] /\ maint \in TickType
    BY DEF SchedulerInv, TypeOK, WorkTypeOK, ProcTypeOK
<1>2. \A c \in Clients : sub[c].tenant \in Tenants BY <1>1 DEF ClientType
<1>3. maint.tenant \in Tenants /\ maint.due \subseteq Tenants BY <1>1 DEF TickType
<1> QED BY <1>1, <1>2, <1>3

\* Steps that start no sweep and end no batch.
LEMMA CoveredMoves ==
    ASSUME SchedulerInv, CoveredInv, UNCHANGED sub, maint.pc = "idle" => maint'.pc = "idle", RescanCovered',
           \A t \in Tenants : /\ KeptBatch(batches[t], batches'[t])
                              /\ batches[t] = NoBatch => batches'[t] = NoBatch,
           \A j \in InPlay' : kindOf(j)' = "redaction"
             => j \in InPlay /\ kindOf(j) = "redaction" /\ tenantOf(j)' = tenantOf(j)
    PROVE  CoveredInv'
<1>1. ApplyOnly' BY DEF CoveredInv, ApplyOnly, Covered, KeptBatch
<1>2. JobsCovered' BY InPlayTypes DEF CoveredInv, JobsCovered, Covered, KeptBatch
<1>3. SubmissionsCovered'
    <2>1. SUFFICES ASSUME NEW c \in Clients, sub[c].pc = "added"
                   PROVE  Outlasts(batches'[sub[c].tenant], SweepsLeft(c)')
        BY DEF SubmissionsCovered
    <2> DEFINE b == batches[sub[c].tenant]
               n == batches'[sub[c].tenant]
    <2>2. KeptBatch(b, n) /\ b \in Batch \cup {NoBatch} BY CoveredTypes
    <2>3. Outlasts(b, SweepsLeft(c)) BY <2>1 DEF CoveredInv, SubmissionsCovered
    <2>4. SweepsLeft(c)' \in {0, 1, 2} /\ SweepsLeft(c) \in {0, 1, 2} /\ SweepsLeft(c)' <= SweepsLeft(c)
        BY DEF SweepsLeft
    <2> HIDE DEF b, n
    <2>5. b # NoBatch /\ b.quiesce \in Nat BY <2>2, <2>3 DEF Outlasts, Batch
    <2> QED BY <2>2, <2>3, <2>4, <2>5 DEF KeptBatch, Outlasts, QuiescenceSweeps, b, n
<1> QED BY <1>1, <1>2, <1>3 DEF CoveredInv

LEMMA ProviderCovered == ASSUME SchedulerInv, CoveredInv, ProviderStep PROVE CoveredInv'
<1>1. CASE (\E t \in Tenants : PrepareNextTenant(t)) \/ NewBlockSelector \/ CreateJob \/ ResetTenant
    BY <1>1, CoveredSame DEF PrepareNextTenant, NewBlockSelector, CreateJob, ResetTenant, workVars, jobVars, indexVars
<1>2. ASSUME NEW j \in NewJobs, NEW d, RegisterJob(j, d), d.kind # "redaction", piped' = piped \cup {j},
             UNCHANGED <<sub, maint>>
      PROVE  CoveredInv'
    <2>1. j \in JobIDs /\ detail \in [JobIDs -> Detail] BY DEF NewJobs, SchedulerInv, TypeOK, WorkTypeOK
    <2>2. detail' = [detail EXCEPT ![j] = d] /\ UNCHANGED <<status, pending, batches>> BY <1>2 DEF RegisterJob
    <2>3. kindOf(j)' # "redaction" /\ \A i : i # j => kindOf(i)' = kindOf(i) /\ tenantOf(i)' = tenantOf(i)
        BY <1>2, <2>1, <2>2 DEF kindOf, tenantOf
    <2> QED BY <1>2, <2>2, <2>3, CoveredFrame DEF InPlay, IsActive
<1>3. CASE RegisterCompaction
    <2> DEFINE d == [kind |-> "compaction", tenant |-> cprov.tenant, blocks |-> cprov.input, dryRun |-> FALSE]
    <2>1. PICK j \in NewJobs : RegisterJob(j, d) /\ piped' = piped \cup {j} BY <1>3 DEF RegisterCompaction
    <2>2. d.kind # "redaction" OBVIOUS
    <2>3. UNCHANGED <<sub, maint>> BY <1>3 DEF RegisterCompaction
    <2> HIDE DEF d
    <2> QED BY <1>2, <2>1, <2>2, <2>3
<1>4. ASSUME NEW t \in Tenants, EmitRetentionJob(t) PROVE CoveredInv'
    <2> DEFINE d == [kind |-> "retention", tenant |-> t, blocks |-> {}, dryRun |-> FALSE]
    <2>1. PICK j \in NewJobs : RegisterJob(j, d) /\ piped' = piped \cup {j} BY <1>4 DEF EmitRetentionJob
    <2>2. d.kind # "redaction" OBVIOUS
    <2>3. UNCHANGED <<sub, maint>> BY <1>4 DEF EmitRetentionJob
    <2> HIDE DEF d
    <2> QED BY <1>2, <2>1, <2>2, <2>3
<1>5. CASE DrainPending
    <2>1. PICK j \in pending : NextPendingJob(j) /\ piped' = piped \cup {j} BY <1>5 DEF DrainPending
    <2>2. pending' = pending \ {j} /\ UNCHANGED <<detail, status, batches, sub, maint>>
        BY <1>5, <2>1 DEF DrainPending, NextPendingJob
    <2> QED BY <2>1, <2>2, CoveredFrame DEF InPlay, IsActive, kindOf, tenantOf
<1> QED BY <1>1, <1>3, <1>4, <1>5 DEF ProviderStep

LEMMA NextCallCovered ==
    ASSUME SchedulerInv, CoveredInv, NEW w \in Workers, NextCall(w) PROVE CoveredInv'
<1>1. CASE NextRedeliver(w)
    BY <1>1, CoveredSame DEF NextRedeliver, workVars, jobVars, indexVars, procVars
<1>2. ASSUME NEW j \in piped, NextDrop(w, j) PROVE CoveredInv'
    <2>1. UNCHANGED <<detail, status, pending, batches, sub, maint>> /\ piped' = piped \ {j}
        BY <1>2 DEF NextDrop, ReleaseRedactionInFlight, workVars, jobVars, indexVars
    <2> QED BY <2>1, CoveredFrame DEF InPlay, IsActive, kindOf, tenantOf
<1>3. ASSUME NEW j \in piped, NextAssign(w, j) PROVE CoveredInv'
    <2>1. /\ detail' = [detail EXCEPT ![j] = Injected(j)] /\ status' = [status EXCEPT ![j] = "running"]
          /\ piped' = piped \ {j} /\ UNCHANGED <<pending, batches, sub, maint>>
        BY <1>3 DEF NextAssign, AddJob
    <2>2. j \in JobIDs /\ detail \in [JobIDs -> Detail] /\ status \in [JobIDs -> Statuses]
        BY DEF SchedulerInv, TypeOK, WorkTypeOK, ProcTypeOK
    <2>3. Injected(j).kind = kindOf(j) /\ Injected(j).tenant = tenantOf(j)
        <3>1. detail[j] \in Detail BY <2>2
        <3> QED BY <3>1 DEF Injected, Detail, kindOf, tenantOf
    <2>4. \A i : kindOf(i)' = kindOf(i) /\ tenantOf(i)' = tenantOf(i)
        BY <2>1, <2>2, <2>3 DEF kindOf, tenantOf
    <2>5. InPlay' \subseteq InPlay BY <2>1, <2>2 DEF InPlay, IsActive
    <2> QED BY <2>1, <2>4, <2>5, CoveredFrame
<1> QED BY <1>1, <1>2, <1>3 DEF NextCall

LEMMA WorkerCovered ==
    ASSUME SchedulerInv, CoveredInv, NEW w \in Workers,
           Execute(w) \/ SendReport(w) \/ LoseReply(w) \/ WorkerCrash(w)
    PROVE  CoveredInv'
<1>1. UNCHANGED <<detail, status, pending, piped, batches, sub, maint>>
    BY DEF Execute, SendReport, LoseReply, WorkerCrash, workVars, jobVars, indexVars, procVars
<1> QED BY <1>1, CoveredSame

LEMMA UpdateJobCovered ==
    ASSUME SchedulerInv, CoveredInv, NEW c \in calls, UpdateJob(c) PROVE CoveredInv'
<1>1. c.job \in JobIDs /\ tenantOf(c.job) \in Tenants BY JobTypes, InPlayTypes
<1>2. CASE UpdateJobEnd(c)
    <2>1. UNCHANGED <<sub, maint, piped>> BY <1>2 DEF UpdateJobEnd
    <2>2. CASE UNCHANGED workVars BY <2>1, <2>2, CoveredSame DEF workVars, jobVars
    <2>3. ASSUME NEW s \in {"succeeded", "failed"}, EndJob(c.job, s) PROVE CoveredInv'
        <3>1. status' = [status EXCEPT ![c.job] = s] /\ UNCHANGED <<detail, pending, batches>> BY <2>3 DEF EndJob
        <3>2. status \in [JobIDs -> Statuses] BY DEF SchedulerInv, TypeOK, WorkTypeOK
        <3>3. InPlay' \subseteq InPlay BY <1>1, <2>1, <3>1, <3>2 DEF InPlay, IsActive
        <3> QED BY <2>1, <3>1, <3>3, CoveredFrame DEF kindOf, tenantOf
    <2>4. (IF c.ok THEN "succeeded" ELSE "failed") \in {"succeeded", "failed"} OBVIOUS
    <2> QED BY <1>2, <2>2, <2>3, <2>4 DEF UpdateJobEnd
<1>3. CASE UpdateJobRecord(c)
    <2> DEFINE t == tenantOf(c.job)
    <2>1. UNCHANGED <<sub, maint, piped>> BY <1>3 DEF UpdateJobRecord
    <2>2. UNCHANGED <<detail, status, pending>>
          /\ (batches' = batches \/ batches' = [batches EXCEPT ![t] = cleanupBatchIfDone(batches[t], t)])
        BY <1>3 DEF UpdateJobRecord, SetBatch, SetJobCompactionOutput, workVars, jobVars, indexVars
    <2> HIDE DEF t
    <2>3. ASSUME NEW u \in Tenants
          PROVE  KeptBatch(batches[u], batches'[u]) /\ (batches[u] = NoBatch => batches'[u] = NoBatch)
        <3>1. batches[u] \in Batch \cup {NoBatch} /\ (batches[u] # NoBatch => ~batches[u].dryRun)
            BY CoveredTypes DEF CoveredInv, ApplyOnly, Covered
        <3>2. KeptBatch(batches[u], batches[u]) BY DEF KeptBatch
        <3>3. batches'[u] = batches[u] \/ batches'[u] = cleanupBatchIfDone(batches[u], u)
            BY <2>2, CoveredTypes
        <3> QED BY <3>1, <3>2, <3>3, CleanupKeepsBatch
    <2>4. RescanCovered' BY <2>1, <2>3, CoveredTypes DEF CoveredInv, RescanCovered, Covered, KeptBatch
    <2> QED BY <2>1, <2>2, <2>3, <2>4, CoveredMoves DEF InPlay, IsActive, kindOf, tenantOf
<1>4. CASE UpdateJobApply(c)
    BY <1>4, CoveredSame DEF UpdateJobApply, workVars, jobVars
<1> QED BY <1>2, <1>3, <1>4 DEF UpdateJob

\* The new jobs are of a tenant whose batch is there.
LEMMA EnqueueCovers ==
    ASSUME SchedulerInv, JobsCovered, NEW t, NEW f, AddPendingJobs(f, t), UNCHANGED piped, Covered(t),
           InPlay' \subseteq JobIDs
    PROVE  JobsCovered'
<1> DEFINE new(j) == \E b \in DOMAIN f : f[b] = j
<1>1. UNCHANGED <<status, batches>> /\ pending' = pending \cup {f[b] : b \in DOMAIN f}
    BY DEF AddPendingJobs
<1>2. \A j \in JobIDs : IF new(j) THEN tenantOf(j)' = t
                        ELSE kindOf(j)' = kindOf(j) /\ tenantOf(j)' = tenantOf(j)
    BY DEF AddPendingJobs, kindOf, tenantOf
<1>3. \A j \in InPlay' : j \in InPlay \/ new(j) BY <1>1 DEF InPlay, IsActive
<1> HIDE DEF new
<1>4. SUFFICES ASSUME NEW j \in InPlay', kindOf(j)' = "redaction" PROVE Covered(tenantOf(j))'
    BY DEF JobsCovered
<1>5. j \in JobIDs BY <1>4
<1>6. CASE new(j) BY <1>1, <1>2, <1>5, <1>6 DEF Covered
<1>7. CASE ~new(j) BY <1>1, <1>2, <1>3, <1>4, <1>5, <1>7 DEF JobsCovered, Covered
<1> QED BY <1>6, <1>7

LEMMA InPlayNext == ASSUME SchedulerInv' PROVE InPlay' \subseteq JobIDs
BY DEF InPlay, SchedulerInv, TypeOK, WorkTypeOK, ProcTypeOK

LEMMA SubmissionCovered ==
    ASSUME SchedulerInv, SchedulerInv', CoveredInv, TRUE \notin Modes, NEW c \in Clients, SubmitRedaction(c)
    PROVE  CoveredInv'
<1>1. UNCHANGED <<piped, maint>>
    BY DEF SubmitRedaction, SubmitSnapshot, SubmitAddBatch, SubmitEnqueue
<1>2. sub[c] \in ClientType /\ ~sub[c].dryRun /\ sub[c].tenant \in Tenants
    BY CoveredTypes DEF CoveredInv, ApplyOnly
<1>3. ASSUME NEW r, sub' = [sub EXCEPT ![c] = r], ~r.dryRun, r.pc # "added",
             UNCHANGED batches, JobsCovered'
      PROVE  CoveredInv'
    <2>1. sub'[c] = r /\ \A e \in Clients : e # c => sub'[e] = sub[e] BY <1>3, CoveredTypes
    <2>2. ApplyOnly' BY <1>3, <2>1 DEF CoveredInv, ApplyOnly, Covered
    <2>3. SubmissionsCovered' BY <1>1, <1>3, <2>1 DEF CoveredInv, SubmissionsCovered, SweepsLeft
    <2>4. RescanCovered' BY <1>1, <1>3 DEF CoveredInv, RescanCovered, Covered
    <2> QED BY <1>3, <2>2, <2>3, <2>4 DEF CoveredInv
<1>4. ~IdleClient(AnyTenant).dryRun /\ IdleClient(AnyTenant).pc # "added" BY DEF IdleClient
<1>5. UNCHANGED workVars => JobsCovered' /\ UNCHANGED batches
    BY <1>1 DEF CoveredInv, JobsCovered, Covered, InPlay, IsActive, kindOf, tenantOf, workVars, jobVars
<1>6. ASSUME NEW t \in Tenants, NEW m \in Modes, SubmitSnapshot(c, t, m) PROVE CoveredInv'
    <2> DEFINE r == [pc |-> "metas", tenant |-> t, dryRun |-> m, blocks |-> BlockMetas(t), jobs |-> NoJobs,
                     ticks |-> 0]
    <2>1. sub' = [sub EXCEPT ![c] = r] /\ UNCHANGED workVars BY <1>6 DEF SubmitSnapshot
    <2>2. m = FALSE BY SchedulerAssumption
    <2>3. ~r.dryRun /\ r.pc # "added" BY <2>2
    <2> HIDE DEF r
    <2> QED BY <1>3, <1>5, <2>1, <2>3
<1>7. CASE SubmitAddBatch(c)
    <2> DEFINE t == sub[c].tenant
               busy == sub[c].blocks \cap BusyBlocks(t)
               skipped == {BusyJob(b) : b \in busy}
               arm == skipped # {} /\ ~sub[c].dryRun
               n == [dryRun |-> sub[c].dryRun, skipped |-> IF arm THEN skipped ELSE {}, rescan |-> arm, quiesce |-> 0]
    <2>1. CASE sub' = [sub EXCEPT ![c] = IdleClient(AnyTenant)] /\ UNCHANGED workVars
        BY <1>3, <1>4, <1>5, <2>1
    <2>2. ASSUME NEW f, batches[t] = NoBatch, SetBatch(t, n),
                 sub' = [sub EXCEPT ![c] = [@ EXCEPT !.pc = "added", !.blocks = {}, !.jobs = f]]
          PROVE  CoveredInv'
        <3>1. n.dryRun = sub[c].dryRun /\ n.quiesce = 0 OBVIOUS
        <3>2. n # NoBatch
            <4>1. n \in Batch
                <5>1. skipped \in SUBSET JobIDs
                    <6>1. \A b \in busy : BusyJob(b) \in JobIDs
                        BY BusyJobType DEF SchedulerInv, TypeOK
                    <6> QED BY <6>1
                <5>2. arm \in BOOLEAN /\ sub[c].dryRun \in BOOLEAN BY <1>2 DEF ClientType
                <5> HIDE DEF skipped, arm
                <5> QED BY <5>1, <5>2 DEF Batch
            <4> QED BY <4>1, BatchAssumption
        <3>3. batches' = [batches EXCEPT ![t] = n] /\ UNCHANGED <<status, detail, pending>>
            BY <2>2 DEF SetBatch, jobVars
        <3> HIDE DEF n
        <3>4. batches'[t] = n /\ \A u \in Tenants : u # t => batches'[u] = batches[u]
            BY <1>2, <3>3, CoveredTypes
        <3>5. /\ sub'[c].tenant = t /\ sub'[c].dryRun = sub[c].dryRun
              /\ \A e \in Clients : e # c => sub'[e] = sub[e]
            BY <1>2, <2>2, CoveredTypes DEF ClientType
        <3> HIDE DEF t
        <3>6. ApplyOnly' BY <1>2, <3>1, <3>4, <3>5 DEF CoveredInv, ApplyOnly, Covered
        <3>7. JobsCovered'
            <4>1. \A u \in Tenants : Covered(u) => Covered(u)' BY <3>2, <3>4 DEF Covered
            <4>2. InPlay' = InPlay /\ \A j : kindOf(j)' = kindOf(j) /\ tenantOf(j)' = tenantOf(j)
                BY <1>1, <3>3 DEF InPlay, IsActive, kindOf, tenantOf
            <4> QED BY <4>1, <4>2, InPlayTypes DEF CoveredInv, JobsCovered
        <3>8. SubmissionsCovered'
            <4>1. SUFFICES ASSUME NEW e \in Clients, sub'[e].pc = "added"
                           PROVE  Outlasts(batches'[sub'[e].tenant], SweepsLeft(e)')
                BY DEF SubmissionsCovered
            <4>2. CASE sub'[e].tenant = t BY <3>1, <3>2, <3>4, <4>2 DEF Outlasts
            <4>3. CASE sub'[e].tenant # t
                <5>1. sub'[e] = sub[e] /\ sub[e].tenant \in Tenants BY <3>5, <4>3, CoveredTypes
                <5>2. batches'[sub[e].tenant] = batches[sub[e].tenant] BY <3>4, <4>3, <5>1
                <5>3. SweepsLeft(e)' = SweepsLeft(e) BY <1>1, <5>1 DEF SweepsLeft
                <5> QED BY <4>1, <5>1, <5>2, <5>3 DEF CoveredInv, SubmissionsCovered
            <4> QED BY <4>2, <4>3
        <3>9. RescanCovered' BY <1>1, <3>2, <3>4, CoveredTypes DEF CoveredInv, RescanCovered, Covered
        <3> QED BY <3>6, <3>7, <3>8, <3>9 DEF CoveredInv
    <2> QED BY <1>7, <2>1, <2>2 DEF SubmitAddBatch
<1>8. CASE SubmitEnqueue(c)
    <2>1. AddPendingJobs(sub[c].jobs, sub[c].tenant) /\ sub' = [sub EXCEPT ![c] = IdleClient(AnyTenant)]
          /\ sub[c].pc = "added"
        BY <1>8 DEF SubmitEnqueue
    <2>2. Covered(sub[c].tenant) BY <2>1 DEF CoveredInv, SubmissionsCovered, Outlasts, Covered
    <2>3. JobsCovered' BY <1>1, <2>1, <2>2, EnqueueCovers, InPlayNext DEF CoveredInv
    <2>4. UNCHANGED batches BY <2>1 DEF AddPendingJobs
    <2> QED BY <1>3, <1>4, <2>1, <2>3, <2>4
<1> QED BY <1>6, <1>7, <1>8 DEF SubmitRedaction

\* A tick starts only after the submissions of the last one went on, and
\* marks those it overtakes.
LEMMA MaintenanceTickCovered ==
    ASSUME SchedulerInv, CoveredInv, NEW dead \in SUBSET {j \in JobIDs : IsActive(j)}, NEW old \in SUBSET Prunable,
           NEW due \in SUBSET Armed, MaintenanceTick(dead, old, due)
    PROVE  CoveredInv'
<1>1. /\ UNCHANGED <<detail, pending, piped, batches>>
      /\ status' = [j \in JobIDs |-> IF j \in dead THEN "failed" ELSE IF j \in old THEN "absent" ELSE status[j]]
      /\ maint.pc = "idle" /\ Prompt /\ maint' = [maint EXCEPT !.pc = "sweep", !.due = due]
      /\ sub' = [c \in Clients |-> IF sub[c].pc = "added" THEN [sub[c] EXCEPT !.ticks = 1] ELSE sub[c]]
    BY DEF MaintenanceTick, Prune
<1>2. maint'.pc = "sweep" BY <1>1, CoveredTypes DEF TickType
<1>3. ASSUME NEW c \in Clients
      PROVE  /\ sub'[c].pc = sub[c].pc /\ sub'[c].tenant = sub[c].tenant /\ sub'[c].dryRun = sub[c].dryRun
             /\ sub[c].pc = "added" => sub'[c].ticks = 1
    <2>1. sub[c] \in ClientType BY CoveredTypes
    <2> QED BY <1>1, <2>1 DEF ClientType
<1>4. ApplyOnly' BY <1>1, <1>3 DEF CoveredInv, ApplyOnly, Covered
<1>5. JobsCovered'
    <2>1. InPlay' \subseteq InPlay BY <1>1 DEF InPlay, IsActive
    <2> QED BY <1>1, <2>1 DEF CoveredInv, JobsCovered, Covered, kindOf, tenantOf
<1>6. SubmissionsCovered'
    <2>1. SUFFICES ASSUME NEW c \in Clients, sub[c].pc = "added"
                   PROVE  Outlasts(batches[sub[c].tenant], SweepsLeft(c)')
        BY <1>1, <1>3 DEF SubmissionsCovered
    <2>2. SweepsLeft(c) = 1 BY <1>1, <2>1 DEF Prompt, SweepsLeft
    <2>3. SweepsLeft(c)' = 1 BY <1>2, <1>3, <2>1 DEF SweepsLeft
    <2> QED BY <2>1, <2>2, <2>3 DEF CoveredInv, SubmissionsCovered
<1>7. RescanCovered' BY <1>2 DEF RescanCovered
<1> QED BY <1>4, <1>5, <1>6, <1>7 DEF CoveredInv

LEMMA RescanLeaves ==
    ASSUME SchedulerInv, CoveredInv, (\E t \in Tenants : RescanBegin(t)) \/ RescanRound PROVE CoveredInv'
<1>1. UNCHANGED <<detail, status, pending, piped, batches, sub>>
    BY DEF RescanBegin, RescanRound, workVars, jobVars
<1>2. maint.pc # "idle" /\ RescanCovered'
    <2>1. CASE \E t \in Tenants : RescanBegin(t) BY <2>1 DEF RescanBegin, RescanCovered
    <2>2. CASE RescanRound
        <3>1. maint.pc = "rescan" BY <2>2 DEF RescanRound
        <3>2. /\ maint'.pc \in {"rescan", "commit"} /\ maint'.due = maint.due /\ maint'.tenant = maint.tenant
            BY <2>2, <3>1, CoveredTypes DEF RescanRound, TickType
        <3> QED BY <3>1, <3>2 DEF CoveredInv, RescanCovered
    <2> QED BY <2>1, <2>2
<1>3. \A t \in Tenants : KeptBatch(batches[t], batches'[t]) /\ (batches[t] = NoBatch => batches'[t] = NoBatch)
    BY <1>1 DEF KeptBatch
<1> QED BY <1>1, <1>2, <1>3, CoveredMoves DEF InPlay, IsActive, kindOf, tenantOf

\* A batch that is due was there when the rescan began, and still is.
LEMMA RescanCommitCovered == ASSUME SchedulerInv, CoveredInv, RescanCommit PROVE CoveredInv'
<1> DEFINE t == maint.tenant
           set == IF batches[t] = NoBatch THEN NoBatch
                  ELSE [batches[t] EXCEPT !.skipped = maint.ids, !.rescan = maint.ids # {}]
           done == maint.ready = {} /\ maint.ids = {}
           next == IF done THEN cleanupBatchIfDone(set, t) ELSE set
<1>1. /\ maint.pc = "commit" /\ batches' = [batches EXCEPT ![t] = next] /\ UNCHANGED <<sub, piped>>
      /\ UNCHANGED <<detail, status, pending>>
      /\ maint' = IF maint.ready = {} THEN [IdleTick(AnyTenant) EXCEPT !.pc = "sweep", !.due = maint.due \ {t}]
                  ELSE [maint EXCEPT !.pc = "enqueue", !.due = maint.due \ {t}]
    BY DEF RescanCommit, SetBatch, jobVars
<1>2. maint.tenant \in maint.due /\ maint.tenant \in Tenants /\ batches[t] # NoBatch
    BY <1>1, CoveredTypes DEF CoveredInv, RescanCovered, SchedulerInv, DueArmed
<1>3. KeptBatch(batches[t], next)
    <2>1. batches[t] \in Batch /\ ~batches[t].dryRun
        BY <1>2, CoveredTypes DEF CoveredInv, ApplyOnly, Covered
    <2>2. set = [batches[t] EXCEPT !.skipped = maint.ids, !.rescan = maint.ids # {}] BY <1>2
    <2>3. set \in Batch /\ set.dryRun = batches[t].dryRun /\ set.quiesce = batches[t].quiesce
        <3>1. maint.ids \in SUBSET JobIDs /\ (maint.ids # {}) \in BOOLEAN BY CoveredTypes DEF TickType
        <3> QED BY <2>1, <2>2, <3>1 DEF Batch
    <2>4. set # NoBatch BY <2>3, BatchAssumption
    <2> HIDE DEF set
    <2>5. KeptBatch(set, cleanupBatchIfDone(set, t)) BY <2>1, <2>3, CleanupKeepsBatch
    <2> QED BY <2>3, <2>4, <2>5 DEF KeptBatch
<1> HIDE DEF next
<1>4. \A u \in Tenants : KeptBatch(batches[u], batches'[u]) /\ (batches[u] = NoBatch => batches'[u] = NoBatch)
    <2>1. \A u \in Tenants : KeptBatch(batches[u], batches[u]) BY DEF KeptBatch
    <2> QED BY <1>1, <1>2, <1>3, <2>1, CoveredTypes
<1>5. RescanCovered'
    <2>1. CASE maint.ready = {}
        <3>1. maint'.pc = "sweep" BY <1>1, <2>1 DEF IdleTick
        <3> QED BY <3>1 DEF RescanCovered
    <2>2. CASE maint.ready # {}
        <3>1. maint'.pc = "enqueue" /\ maint'.tenant = t BY <1>1, <2>2, CoveredTypes DEF TickType
        <3>2. batches'[t] # NoBatch BY <1>2, <1>4 DEF KeptBatch
        <3> QED BY <3>1, <3>2 DEF RescanCovered, Covered
    <2> QED BY <2>1, <2>2
<1> QED BY <1>1, <1>4, <1>5, CoveredMoves DEF InPlay, IsActive, kindOf, tenantOf

LEMMA RescanEnqueueCovered == ASSUME SchedulerInv, SchedulerInv', CoveredInv, RescanEnqueue PROVE CoveredInv'
<1>1. PICK f \in NewJobPerBlock(maint.ready) : AddPendingJobs(f, maint.tenant) BY DEF RescanEnqueue
<1>2. /\ maint.pc = "enqueue" /\ UNCHANGED <<piped, sub>>
      /\ maint' = [IdleTick(AnyTenant) EXCEPT !.pc = "sweep", !.due = maint.due]
    BY DEF RescanEnqueue
<1>3. maint'.pc = "sweep" BY <1>2 DEF IdleTick
<1>4. UNCHANGED batches BY <1>1 DEF AddPendingJobs
<1>5. JobsCovered' BY <1>1, <1>2, EnqueueCovers, InPlayNext DEF CoveredInv, RescanCovered
<1>6. SubmissionsCovered' BY <1>2, <1>3, <1>4 DEF CoveredInv, SubmissionsCovered, SweepsLeft
<1>7. RescanCovered' /\ ApplyOnly' BY <1>2, <1>3, <1>4 DEF CoveredInv, RescanCovered, ApplyOnly, Covered
<1> QED BY <1>5, <1>6, <1>7 DEF CoveredInv

LEMMA AdvanceOutlasts ==
    ASSUME NEW b \in Batch, NEW t, ~b.dryRun
    PROVE  /\ advanceQuiescence(b, t) # NoBatch => ~advanceQuiescence(b, t).dryRun
           /\ HasJobsForTenant(t, "redaction") => advanceQuiescence(b, t) # NoBatch
           /\ \A n \in {0, 1} : Outlasts(b, n + 1) => Outlasts(advanceQuiescence(b, t), n)
<1>1. b # NoBatch BY BatchAssumption
<1>2. ASSUME NEW q \in Nat
      PROVE  /\ [b EXCEPT !.quiesce = q] \in Batch /\ [b EXCEPT !.quiesce = q] # NoBatch
             /\ [b EXCEPT !.quiesce = q].dryRun = b.dryRun /\ [b EXCEPT !.quiesce = q].quiesce = q
    <2>1. [b EXCEPT !.quiesce = q] \in Batch BY DEF Batch
    <2> QED BY <2>1, BatchAssumption DEF Batch
<1>3. CASE redactionBatchActive(b, t)
    <2>1. advanceQuiescence(b, t) = [b EXCEPT !.quiesce = 0] BY <1>1, <1>3 DEF advanceQuiescence
    <2> QED BY <1>2, <2>1 DEF Outlasts
<1>4. CASE ~redactionBatchActive(b, t)
    <2>1. ~HasJobsForTenant(t, "redaction") BY <1>4 DEF redactionBatchActive
    <2>2. b.quiesce \in Nat BY DEF Batch
    <2>3. CASE b.quiesce = 0
        <3>1. advanceQuiescence(b, t) = [b EXCEPT !.quiesce = 2]
            BY <1>1, <1>4, <2>3 DEF advanceQuiescence, QuiescenceSweeps
        <3> QED BY <1>2, <2>1, <3>1 DEF Outlasts
    <2>4. CASE b.quiesce > 1
        <3>1. advanceQuiescence(b, t) = [b EXCEPT !.quiesce = b.quiesce - 1] /\ b.quiesce - 1 \in Nat
            BY <1>1, <1>4, <2>2, <2>4 DEF advanceQuiescence
        <3>2. \A n \in {0, 1} : Outlasts(b, n + 1) => b.quiesce - 1 > n BY <2>2, <2>4 DEF Outlasts
        <3> QED BY <1>2, <2>1, <3>1, <3>2 DEF Outlasts
    <2>5. CASE b.quiesce = 1
        <3>1. advanceQuiescence(b, t) = NoBatch BY <1>1, <1>4, <2>5 DEF advanceQuiescence
        <3>2. \A n \in {0, 1} : ~Outlasts(b, n + 1) BY <2>5 DEF Outlasts
        <3> QED BY <2>1, <3>1, <3>2
    <2> QED BY <2>2, <2>3, <2>4, <2>5
<1> QED BY <1>3, <1>4

\* The sweep: a job in play keeps its batch active, and a submission's batch
\* has a sweep to spare.
LEMMA CleanupOrphanedBatchesCovered == ASSUME SchedulerInv, CoveredInv, CleanupOrphanedBatches PROVE CoveredInv'
<1>1. /\ maint.pc = "sweep" /\ maint' = IdleTick(AnyTenant) /\ UNCHANGED <<detail, status, pending, piped, sub>>
      /\ batches' = [t \in Tenants |-> advanceQuiescence(batches[t], t)]
    BY DEF CleanupOrphanedBatches, jobVars
<1>2. maint'.pc = "idle" BY <1>1 DEF IdleTick
<1>3. ASSUME NEW t \in Tenants, batches[t] = NoBatch PROVE batches'[t] = NoBatch
    BY <1>1, <1>3 DEF advanceQuiescence
<1>4. ASSUME NEW t \in Tenants, batches[t] # NoBatch
      PROVE  /\ Covered(t)' => ~batches'[t].dryRun
             /\ HasJobsForTenant(t, "redaction") => Covered(t)'
             /\ \A n \in {0, 1} : Outlasts(batches[t], n + 1) => Outlasts(batches'[t], n)
    <2>1. batches[t] \in Batch /\ ~batches[t].dryRun BY <1>4, CoveredTypes DEF CoveredInv, ApplyOnly, Covered
    <2> QED BY <1>1, <2>1, AdvanceOutlasts DEF Covered
<1>5. ApplyOnly' BY <1>1, <1>3, <1>4 DEF CoveredInv, ApplyOnly, Covered
<1>6. JobsCovered'
    <2>1. SUFFICES ASSUME NEW j \in InPlay, kindOf(j) = "redaction" PROVE batches'[tenantOf(j)] # NoBatch
        BY <1>1 DEF JobsCovered, Covered, InPlay, IsActive, kindOf, tenantOf
    <2>2. tenantOf(j) \in Tenants /\ batches[tenantOf(j)] # NoBatch
        BY <2>1, InPlayTypes DEF CoveredInv, JobsCovered, Covered
    <2> QED BY <1>4, <2>1, <2>2, InPlayIsSeen DEF Covered
<1>7. SubmissionsCovered'
    <2>1. SUFFICES ASSUME NEW c \in Clients, sub[c].pc = "added"
                   PROVE  Outlasts(batches'[sub[c].tenant], SweepsLeft(c)')
        BY <1>1 DEF SubmissionsCovered
    <2>2. SweepsLeft(c)' \in {0, 1} /\ SweepsLeft(c) = SweepsLeft(c)' + 1 BY <1>1, <1>2 DEF SweepsLeft
    <2>3. Outlasts(batches[sub[c].tenant], SweepsLeft(c)' + 1) BY <2>1, <2>2 DEF CoveredInv, SubmissionsCovered
    <2>4. sub[c].tenant \in Tenants /\ batches[sub[c].tenant] # NoBatch BY <2>3, CoveredTypes DEF Outlasts
    <2> QED BY <1>4, <2>2, <2>3, <2>4
<1>8. RescanCovered' BY <1>2 DEF RescanCovered
<1> QED BY <1>5, <1>6, <1>7, <1>8 DEF CoveredInv

LEMMA CoveredStep ==
    ASSUME TRUE \notin Modes
    PROVE  SchedulerInv /\ (restarted \/ CoveredInv) /\ [Next]_vars => (restarted \/ CoveredInv)'
<1> SUFFICES ASSUME SchedulerInv, restarted \/ CoveredInv, [Next]_vars PROVE restarted' \/ CoveredInv'
    OBVIOUS
<1>1. CASE \E graceful \in BOOLEAN : Restart(graceful) BY <1>1 DEF Restart
<1>2. CASE ~\E graceful \in BOOLEAN : Restart(graceful)
    <2>1. UNCHANGED restarted /\ SchedulerInv' BY <1>2, StaysUp, SchedulerStep
    <2>2. SUFFICES ASSUME CoveredInv PROVE CoveredInv' BY <2>1
    <2>3. ASSUME ProviderStep PROVE CoveredInv' BY <2>2, <2>3, ProviderCovered
    <2>4. ASSUME NEW w \in Workers, NextCall(w) \/ Execute(w) \/ SendReport(w) \/ LoseReply(w) \/ WorkerCrash(w)
          PROVE  CoveredInv'
        BY <2>2, <2>4, NextCallCovered, WorkerCovered
    <2>5. ASSUME NEW c \in calls, UpdateJob(c) PROVE CoveredInv' BY <2>2, <2>5, UpdateJobCovered
    <2>6. ASSUME NEW c \in Clients, SubmitRedaction(c) PROVE CoveredInv' BY <2>1, <2>2, <2>6, SubmissionCovered
    <2>7. ASSUME MaintenanceStep PROVE CoveredInv'
        BY <2>1, <2>2, <2>7, MaintenanceTickCovered, RescanLeaves, RescanCommitCovered, RescanEnqueueCovered,
           CleanupOrphanedBatchesCovered DEF MaintenanceStep
    <2>8. ASSUME Poll \/ UNCHANGED vars PROVE CoveredInv'
        BY <2>2, <2>8, CoveredSame DEF Poll, vars, workVars, jobVars, indexVars, procVars
    <2> QED BY <1>2, <2>3, <2>4, <2>5, <2>6, <2>7, <2>8 DEF Next
<1> QED BY <1>1, <1>2

\* Where every request is in apply mode and until the scheduler restarts, a
\* redaction job that is pending, dequeued or running has its tenant's batch:
\* no sweep, rescan or late completion ends it early, also not between the
\* AddBatch and the AddPendingJobs of a submission, because QuiescencePeriod
\* is longer than one maintenance interval.
THEOREM SchedulerRedactionJobsHaveBatch ==
    ASSUME TRUE \notin Modes
    PROVE  Spec => []RedactionJobsHaveBatch
<1>1. Init => restarted \/ CoveredInv
    BY DEF Init, CoveredInv, ApplyOnly, Covered, JobsCovered, InPlay, IsActive, SubmissionsCovered, RescanCovered,
           IdleClient, IdleTick
<1>2. restarted \/ CoveredInv => RedactionJobsHaveBatch
    BY DEF CoveredInv, JobsCovered, InPlay, Covered, RedactionJobsHaveBatch, JobsOf
<1>3. SchedulerInv /\ (restarted \/ CoveredInv) /\ [Next]_vars => (restarted \/ CoveredInv)' BY CoveredStep
<1> QED BY <1>1, <1>2, <1>3, SchedulerInvariant, PTL DEF Spec
=============================================================================
