----------------------- MODULE BackendSchedulerProofs -----------------------
(***************************************************************************)
(* For any tenants, workers, blocks, jobs and faults: the scheduler's two  *)
(* job counters are exact and a job is in one place.  The inductive        *)
(* invariant is SchedulerInv; there is one lemma per action below.         *)
(***************************************************************************)
EXTENDS BackendScheduler, WorkProofs

USE SchedulerAssumption

LEMMA AnyTenantType == AnyTenant \in Tenants
BY DEF AnyTenant

LEMMA IdleTypes ==
    /\ IdleProvider(AnyTenant) \in ProviderType
    /\ IdleClient(AnyTenant) \in ClientType
    /\ IdleTick(AnyTenant) \in TickType
    /\ IdleWorker \in WorkerType
<1>1. NoJobs \in UNION {[S -> JobIDs] : S \in SUBSET Blocks}
    <2>1. NoJobs \in [{} -> JobIDs] BY DEF NoJobs
    <2> QED BY <2>1
<1>2. IdleProvider(AnyTenant) \in ProviderType BY AnyTenantType DEF IdleProvider, ProviderType
<1>3. IdleClient(AnyTenant) \in ClientType BY <1>1, AnyTenantType DEF IdleClient, ClientType
<1>4. IdleTick(AnyTenant) \in TickType BY AnyTenantType DEF IdleTick, TickType
<1>5. IdleWorker \in WorkerType BY DEF IdleWorker, WorkerType
<1> QED BY <1>2, <1>3, <1>4, <1>5

(***************************************************************************)
(* The parts of the invariant that a step keeps when it leaves alone what  *)
(* they speak about.                                                       *)
(***************************************************************************)
LEMMA InFlightFrame ==
    ASSUME InFlightExact, UNCHANGED <<redactionInFlight, piped>>,
           \A j \in piped : kindOf(j)' = kindOf(j) /\ tenantOf(j)' = tenantOf(j)
    PROVE  InFlightExact'
<1>1. \A t : JobsOf(piped, t, "redaction")' = JobsOf(piped, t, "redaction") BY DEF JobsOf
<1> QED BY <1>1 DEF InFlightExact

LEMMA DueFrame ==
    ASSUME DueArmed, maint'.due \subseteq maint.due, \A t \in maint'.due : batches'[t] = batches[t]
    PROVE  DueArmed'
BY DEF DueArmed

LEMMA CallsFrame == ASSUME CallsAwaited, UNCHANGED <<calls, wk>> PROVE CallsAwaited'
BY DEF CallsAwaited

LEMMA RunningFrame ==
    ASSUME RunningExact, UNCHANGED <<status, detail, runningByTenant>>
    PROVE  RunningExact'
BY DEF RunningExact, ActiveJobs, JobsOf, IsActive, tenantOf, kindOf

LEMMA WorkTypeFrame == ASSUME WorkTypeOK, UNCHANGED workVars PROVE WorkTypeOK'
BY DEF WorkTypeOK, workVars, jobVars, indexVars

LEMMA SubmittingFrame == ASSUME UNCHANGED sub PROVE \A c : Submitting(c)' = Submitting(c)
BY DEF Submitting

LEMMA Frame ==
    ASSUME SchedulerInv, UNCHANGED <<workVars, piped, sub, issued, disk>>, maint'.due \subseteq maint.due
    PROVE  CountsExact' /\ JobInOnePlace' /\ PendingAreRedactions' /\ DueArmed'
<1> USE DEF SchedulerInv, workVars, jobVars, indexVars
<1>1. InFlightExact' BY InFlightFrame DEF CountsExact, kindOf, tenantOf
<1>2. RunningExact' BY RunningFrame DEF CountsExact
<1>3. JobInOnePlace' BY SubmittingFrame DEF JobInOnePlace, Known
<1>4. PendingAreRedactions' BY DEF PendingAreRedactions, kindOf
<1>5. DueArmed' BY DueFrame
<1> QED BY <1>1, <1>2, <1>3, <1>4, <1>5 DEF CountsExact

(***************************************************************************)
(* A flush writes what is in memory, shard by shard: a job that is in one  *)
(* place in memory and in the old files is in one place in the new files.  *)
(***************************************************************************)
LEMMA FlushedPlaced ==
    ASSUME disk \in DiskType, WorkTypeOK', JobInOnePlace, issued \subseteq issued',
           pending' \cap Known(status') = {}, pending' \cup Known(status') \subseteq issued',
           NEW S, NEW m \in BOOLEAN, disk' = Flushed(S, m)
    PROVE  /\ disk' \in DiskType
           /\ disk'.pending \cap Known(disk'.status) = {}
           /\ disk'.pending \cup Known(disk'.status) \subseteq issued'
           /\ disk'.pending \subseteq pending' \cup disk.pending
<1>1. disk' \in DiskType
    <2>1. /\ disk'.status = [j \in JobIDs |-> IF ShardOf[j] \in S THEN status'[j] ELSE disk.status[j]]
          /\ disk'.workerOf = [j \in JobIDs |-> IF ShardOf[j] \in S THEN workerOf'[j] ELSE disk.workerOf[j]]
          /\ disk'.output = [j \in JobIDs |-> IF ShardOf[j] \in S THEN output'[j] ELSE disk.output[j]]
          /\ disk'.pending = {j \in JobIDs : IF ShardOf[j] \in S THEN j \in pending' ELSE j \in disk.pending}
          /\ disk'.batches = IF m THEN batches' ELSE disk.batches
        BY DEF Flushed
    <2>2. disk'.status \in [JobIDs -> Statuses] BY <2>1 DEF DiskType, WorkTypeOK
    <2>3. disk'.workerOf \in [JobIDs -> Workers \cup {NoWorker}] BY <2>1 DEF DiskType, WorkTypeOK
    <2>4. disk'.output \in [JobIDs -> SUBSET Blocks] BY <2>1 DEF DiskType, WorkTypeOK
    <2>5. disk'.pending \in SUBSET JobIDs BY <2>1
    <2>6. disk'.batches \in [Tenants -> Batch \cup {NoBatch}] BY <2>1 DEF DiskType, WorkTypeOK
    <2>7. disk' = [status |-> disk'.status, workerOf |-> disk'.workerOf, output |-> disk'.output,
                   pending |-> disk'.pending, batches |-> disk'.batches]
        BY <2>1 DEF Flushed
    <2> QED BY <2>2, <2>3, <2>4, <2>5, <2>6, <2>7 DEF DiskType
<1>2. /\ disk'.status = [j \in JobIDs |-> IF ShardOf[j] \in S THEN status'[j] ELSE disk.status[j]]
      /\ disk'.pending = {j \in JobIDs : IF ShardOf[j] \in S THEN j \in pending' ELSE j \in disk.pending}
    BY DEF Flushed
<1>3. \A j \in JobIDs : j \in disk'.pending => j \notin Known(disk'.status)
    BY <1>2 DEF JobInOnePlace, Known
<1>4. \A j \in JobIDs : j \in disk'.pending \/ j \in Known(disk'.status) => j \in issued'
    BY <1>2 DEF JobInOnePlace, Known
<1>5. disk'.pending \subseteq JobIDs /\ Known(disk'.status) \subseteq JobIDs BY <1>2 DEF Known
<1>6. disk'.pending \subseteq pending' \cup disk.pending BY <1>2
<1> QED BY <1>1, <1>3, <1>4, <1>5, <1>6

(***************************************************************************)
(* The compaction provider before it registers.                            *)
(***************************************************************************)
LEMMA SelectorKeeps ==
    ASSUME SchedulerInv,
           (\E t \in Tenants : PrepareNextTenant(t)) \/ NewBlockSelector \/ CreateJob \/ ResetTenant
    PROVE  SchedulerInv'
<1> USE DEF SchedulerInv, TypeOK
<1>1. UNCHANGED <<workVars, piped, sub, calls, maint, envVars, issued, blocklist, disk>>
    BY DEF PrepareNextTenant, NewBlockSelector, CreateJob, ResetTenant
<1>2. cprov' \in ProviderType
    <2>1. ASSUME NEW t \in Tenants, PrepareNextTenant(t) PROVE cprov' \in ProviderType
        BY <2>1 DEF PrepareNextTenant, ProviderType, BlockMetas
    <2>2. ASSUME NewBlockSelector PROVE cprov' \in ProviderType
        BY <2>2 DEF NewBlockSelector, ProviderType, ProcTypeOK
    <2>3. ASSUME CreateJob PROVE cprov' \in ProviderType
        <3>1. PICK input \in SUBSET cprov.avail :
                  cprov' = [cprov EXCEPT !.pc = "created", !.avail = @ \ input, !.input = input]
            BY <2>3 DEF CreateJob
        <3>2. cprov \in ProviderType BY DEF ProcTypeOK
        <3> QED BY <3>1, <3>2 DEF ProviderType
    <2>4. ASSUME ResetTenant PROVE cprov' \in ProviderType
        BY <2>4, IdleTypes DEF ResetTenant
    <2> QED BY <2>1, <2>2, <2>3, <2>4
<1>3. TypeOK'
    BY <1>1, <1>2, WorkTypeFrame DEF ProcTypeOK, EnvTypeOK, envVars
<1> QED BY <1>1, <1>3, Frame, CallsFrame DEF envVars

(***************************************************************************)
(* A job registered by a provider has a new ID and is no redaction.        *)
(***************************************************************************)
LEMMA RegisteredKeeps ==
    ASSUME SchedulerInv, NEW j \in NewJobs, NEW d \in Detail, d.kind # "redaction", RegisterJob(j, d),
           piped' = piped \cup {j}, issued' = issued \cup {j}, cprov' \in ProviderType,
           UNCHANGED <<sub, calls, maint, envVars, blocklist, disk>>
    PROVE  SchedulerInv'
<1> USE DEF SchedulerInv, TypeOK
<1>1. j \in JobIDs /\ j \notin issued /\ status[j] = "absent"
    BY DEF NewJobs, JobInOnePlace, Known
<1>2. WorkTypeOK' /\ RunningExact' BY <1>1, RegisterJobKeeps DEF CountsExact
<1>3. TypeOK' BY <1>1, <1>2 DEF ProcTypeOK, EnvTypeOK, envVars
<1>4. detail' = [detail EXCEPT ![j] = d]
      /\ UNCHANGED <<status, pending, redactionInFlight, batches>>
    BY DEF RegisterJob
<1>5. InFlightExact'
    <2>1. \A t : JobsOf(piped, t, "redaction")' = JobsOf(piped, t, "redaction")
        BY <1>1, <1>4 DEF JobsOf, kindOf, tenantOf, WorkTypeOK, JobInOnePlace
    <2> QED BY <1>4, <2>1 DEF InFlightExact, CountsExact
<1>6. JobInOnePlace' BY <1>1, <1>4, SubmittingFrame DEF JobInOnePlace, Known
<1>7. PendingAreRedactions'
    BY <1>1, <1>4 DEF PendingAreRedactions, JobInOnePlace, kindOf, WorkTypeOK
<1>8. DueArmed' BY <1>4, DueFrame
<1>9. CallsAwaited' BY CallsFrame DEF envVars
<1> QED BY <1>2, <1>3, <1>5, <1>6, <1>7, <1>8, <1>9 DEF CountsExact

LEMMA RegisterCompactionKeeps == ASSUME SchedulerInv, RegisterCompaction PROVE SchedulerInv'
<1> DEFINE d == [kind |-> "compaction", tenant |-> cprov.tenant, blocks |-> cprov.input, dryRun |-> FALSE]
<1>1. d \in Detail BY DEF SchedulerInv, TypeOK, ProcTypeOK, ProviderType, Detail, Kinds
<1>2. d.kind # "redaction" OBVIOUS
<1>3. cprov' \in ProviderType
    BY DEF RegisterCompaction, SchedulerInv, TypeOK, ProcTypeOK, ProviderType
<1>4. PICK j \in NewJobs : RegisterJob(j, d) /\ piped' = piped \cup {j} /\ issued' = issued \cup {j}
    BY DEF RegisterCompaction
<1>5. UNCHANGED <<sub, calls, maint, envVars, blocklist, disk>> BY DEF RegisterCompaction
<1> HIDE DEF d
<1> QED BY <1>1, <1>2, <1>3, <1>4, <1>5, RegisteredKeeps

LEMMA EmitRetentionKeeps ==
    ASSUME SchedulerInv, NEW t \in Tenants, EmitRetentionJob(t) PROVE SchedulerInv'
<1> DEFINE d == [kind |-> "retention", tenant |-> t, blocks |-> {}, dryRun |-> FALSE]
<1>1. d \in Detail BY DEF Detail, Kinds
<1>2. d.kind # "redaction" OBVIOUS
<1>3. cprov' \in ProviderType BY DEF EmitRetentionJob, SchedulerInv, TypeOK, ProcTypeOK
<1>4. PICK j \in NewJobs : RegisterJob(j, d) /\ piped' = piped \cup {j} /\ issued' = issued \cup {j}
    BY DEF EmitRetentionJob
<1>5. UNCHANGED <<sub, calls, maint, envVars, blocklist, disk>> BY DEF EmitRetentionJob
<1> HIDE DEF d
<1> QED BY <1>1, <1>2, <1>3, <1>4, <1>5, RegisteredKeeps

(***************************************************************************)
(* The dequeued job is counted as it enters the pipeline.                  *)
(***************************************************************************)
LEMMA DrainPendingKeeps == ASSUME SchedulerInv, DrainPending PROVE SchedulerInv'
<1> USE DEF SchedulerInv, TypeOK
<1>1. PICK j \in pending : NextPendingJob(j) /\ piped' = piped \cup {j}
    BY DEF DrainPending
<1>2. UNCHANGED <<cprov, sub, calls, maint, envVars, issued, blocklist, disk>> BY DEF DrainPending
<1>3. j \in JobIDs /\ tenantOf(j) \in Tenants /\ j \notin piped /\ kindOf(j) = "redaction"
    BY DEF WorkTypeOK, Detail, tenantOf, JobInOnePlace, PendingAreRedactions
<1>4. WorkTypeOK' /\ RunningExact' BY <1>1, <1>3, OthersKeep DEF CountsExact
<1>5. TypeOK' BY <1>1, <1>2, <1>3, <1>4 DEF ProcTypeOK, EnvTypeOK, envVars
<1>6. /\ pending' = pending \ {j}
      /\ redactionInFlight' = [redactionInFlight EXCEPT ![tenantOf(j)] = @ + 1]
      /\ UNCHANGED <<detail, status, batches>>
    BY <1>1 DEF NextPendingJob
<1>7. ASSUME NEW t \in Tenants
      PROVE  redactionInFlight'[t] = Cardinality(JobsOf(piped, t, "redaction")')
    <2>0. IsFiniteSet(JobsOf(piped, t, "redaction")) BY ActiveFinite DEF ProcTypeOK
    <2>1. CASE t = tenantOf(j)
        <3>1. /\ JobsOf(piped, t, "redaction")' = JobsOf(piped, t, "redaction") \cup {j}
              /\ j \notin JobsOf(piped, t, "redaction")
            BY <1>1, <1>3, <1>6, <2>1 DEF JobsOf, kindOf, tenantOf
        <3>2. Cardinality(JobsOf(piped, t, "redaction")') = Cardinality(JobsOf(piped, t, "redaction")) + 1
            BY <2>0, <3>1, FS_AddElement
        <3> QED BY <1>3, <1>6, <2>1, <3>2 DEF WorkTypeOK, CountsExact, InFlightExact
    <2>2. CASE t # tenantOf(j)
        <3>1. JobsOf(piped, t, "redaction")' = JobsOf(piped, t, "redaction")
            BY <1>1, <1>3, <1>6, <2>2 DEF JobsOf, kindOf, tenantOf
        <3> QED BY <1>6, <2>2, <3>1 DEF WorkTypeOK, CountsExact, InFlightExact
    <2> QED BY <2>1, <2>2
<1>8. JobInOnePlace' BY <1>1, <1>2, <1>6, SubmittingFrame DEF JobInOnePlace, Known
<1>9. PendingAreRedactions' BY <1>2, <1>6 DEF PendingAreRedactions, kindOf
<1>10. DueArmed' BY <1>2, <1>6, DueFrame
<1>11. CallsAwaited' BY <1>2, CallsFrame DEF envVars
<1> QED BY <1>4, <1>5, <1>7, <1>8, <1>9, <1>10, <1>11 DEF CountsExact, InFlightExact

(***************************************************************************)
(* Next.  Delivering a job changes the files and the worker only.          *)
(***************************************************************************)
LEMMA DeliverKeeps ==
    ASSUME SchedulerInv, NEW w \in Workers, NEW j \in JobIDs, Deliver(w, j), WorkTypeOK',
           issued' = issued, pending' = pending, pending \cap Known(status') = {},
           Known(status') \subseteq issued, UNCHANGED <<calls, live, written, restarted>>, wk[w].pc = "idle"
    PROVE  /\ EnvTypeOK' /\ CallsAwaited' /\ disk' \in DiskType
           /\ disk'.pending \cap Known(disk'.status) = {}
           /\ disk'.pending \cup Known(disk'.status) \subseteq issued
           /\ disk'.pending \subseteq pending \cup disk.pending
<1> USE DEF SchedulerInv, TypeOK
<1>1. EnvTypeOK'
    <2>1. faults' \in Nat BY DEF Deliver, NoFault, Fault, EnvTypeOK
    <2>2. CASE wk' = wk BY <2>1, <2>2 DEF EnvTypeOK
    <2>3. CASE wk' = [wk EXCEPT ![w] = [IdleWorker EXCEPT !.pc = "busy", !.job = j]]
        <3>1. [IdleWorker EXCEPT !.pc = "busy", !.job = j] \in WorkerType BY DEF IdleWorker, WorkerType
        <3>2. [IdleWorker EXCEPT !.pc = "busy", !.job = j].job = j BY DEF IdleWorker
        <3> HIDE DEF SchedulerInv
        <3>3. wk' \in [Workers -> WorkerType] BY <2>3, <3>1 DEF EnvTypeOK, SchedulerInv
        <3>4. \A v \in Workers : wk'[v].pc # "idle" => wk'[v].job \in JobIDs
            BY <2>3, <3>2 DEF EnvTypeOK, SchedulerInv
        <3> QED BY <2>1, <3>3, <3>4 DEF EnvTypeOK, SchedulerInv
    <2> QED BY <2>2, <2>3 DEF Deliver
<1>0. CallsAwaited'
    <2>1. wk' = wk \/ wk' = [wk EXCEPT ![w] = [IdleWorker EXCEPT !.pc = "busy", !.job = j]] BY DEF Deliver
    <2>2. \A c \in calls : c.worker # w BY DEF CallsAwaited
    <2> QED BY <2>1, <2>2 DEF CallsAwaited, EnvTypeOK
<1>2. CASE disk' = disk BY <1>0, <1>1, <1>2 DEF JobInOnePlace
<1>3. CASE disk' = Flushed(ShardsOf({j}), FALSE)
    <2>1. pending' \cup Known(status') \subseteq issued' BY DEF JobInOnePlace
    <2> QED BY <1>0, <1>1, <1>3, <2>1, FlushedPlaced
<1> QED BY <1>2, <1>3 DEF Deliver, FlushToLocal

LEMMA NextRedeliverKeeps ==
    ASSUME SchedulerInv, NEW w \in Workers, NextRedeliver(w) PROVE SchedulerInv'
<1> USE DEF SchedulerInv, TypeOK
<1>1. UNCHANGED <<workVars, procVars, live, written, issued, restarted, blocklist>> BY DEF NextRedeliver
<1>2. WorkTypeOK' BY <1>1, WorkTypeFrame
<1>3. UNCHANGED <<status, detail, pending, redactionInFlight, runningByTenant, batches, piped, sub, maint>>
    BY <1>1 DEF workVars, jobVars, indexVars, procVars
<1>4. GetJobForWorker(w) \in JobIDs BY DEF NextRedeliver, GetJobForWorker, WorkTypeOK
<1>5. pending \cap Known(status') = {} /\ Known(status') \subseteq issued BY <1>3 DEF JobInOnePlace
<1>6. /\ EnvTypeOK' /\ CallsAwaited' /\ disk' \in DiskType
      /\ disk'.pending \cap Known(disk'.status) = {}
      /\ disk'.pending \cup Known(disk'.status) \subseteq issued
      /\ disk'.pending \subseteq pending \cup disk.pending
    BY <1>1, <1>2, <1>3, <1>4, <1>5, DeliverKeeps DEF NextRedeliver, procVars
<1>7. TypeOK' BY <1>1, <1>2, <1>6 DEF ProcTypeOK, procVars
<1>8. CountsExact'
    BY <1>3, InFlightFrame, RunningFrame DEF CountsExact, kindOf, tenantOf
<1>9. JobInOnePlace' BY <1>1, <1>3, <1>6, SubmittingFrame DEF JobInOnePlace, Known
<1>10. PendingAreRedactions' BY <1>3, <1>6 DEF PendingAreRedactions, kindOf
<1>11. DueArmed' BY <1>3, DueFrame
<1> QED BY <1>6, <1>7, <1>8, <1>9, <1>10, <1>11

(***************************************************************************)
(* A redaction job that leaves the pipeline gives its count back, whether  *)
(* it is promoted or dropped.                                              *)
(***************************************************************************)
LEMMA LeavesPipeline ==
    ASSUME SchedulerInv, NEW j \in piped, piped' = piped \ {j},
           \A i \in piped : kindOf(i)' = kindOf(i) /\ tenantOf(i)' = tenantOf(i),
           redactionInFlight' = IF kindOf(j) = "redaction" THEN DecInFlight(tenantOf(j)) ELSE redactionInFlight
    PROVE  InFlightExact'
<1> USE DEF SchedulerInv, TypeOK
<1>0. j \in JobIDs /\ tenantOf(j) \in Tenants BY DEF WorkTypeOK, ProcTypeOK, Detail, tenantOf
<1>1. ASSUME NEW t \in Tenants
      PROVE  redactionInFlight'[t] = Cardinality(JobsOf(piped, t, "redaction")')
    <2> DEFINE P == JobsOf(piped, t, "redaction")
    <2>0. IsFiniteSet(P) /\ Cardinality(P) \in Nat BY ActiveFinite DEF ProcTypeOK
    <2>1. redactionInFlight[t] = Cardinality(P) BY DEF CountsExact, InFlightExact
    <2>2. CASE kindOf(j) = "redaction" /\ t = tenantOf(j)
        <3>1. JobsOf(piped, t, "redaction")' = P \ {j} /\ j \in P BY <2>2 DEF JobsOf
        <3> HIDE DEF P
        <3>2. Cardinality(P \ {j}) = Cardinality(P) - 1 /\ Cardinality(P \ {j}) \in Nat
            BY <2>0, <3>1, FS_RemoveElement, FS_CardinalityType
        <3>3. redactionInFlight'[t] = IF redactionInFlight[t] > 0 THEN redactionInFlight[t] - 1 ELSE 0
            BY <1>0, <2>2 DEF DecInFlight, WorkTypeOK
        <3>4. redactionInFlight'[t] = Cardinality(P \ {j}) BY <2>0, <2>1, <3>2, <3>3
        <3> QED BY <3>1, <3>4
    <2>3. CASE ~(kindOf(j) = "redaction" /\ t = tenantOf(j))
        <3>1. JobsOf(piped, t, "redaction")' = P BY <2>3 DEF JobsOf
        <3>2. redactionInFlight'[t] = redactionInFlight[t] BY <2>3 DEF DecInFlight, WorkTypeOK
        <3> QED BY <2>1, <3>1, <3>2
    <2> QED BY <2>2, <2>3
<1> QED BY <1>1 DEF InFlightExact

LEMMA NextDropKeeps ==
    ASSUME SchedulerInv, NEW w \in Workers, NEW j \in piped, NextDrop(w, j) PROVE SchedulerInv'
<1> USE DEF SchedulerInv, TypeOK
<1>0. tenantOf(j) \in Tenants BY DEF WorkTypeOK, ProcTypeOK, Detail, tenantOf
<1>1. piped' = piped \ {j} /\ UNCHANGED <<cprov, sub, calls, maint, envVars, issued, blocklist, disk>>
    BY DEF NextDrop
<1>2. /\ UNCHANGED <<status, detail, pending, runningByTenant, batches>>
      /\ redactionInFlight' = IF kindOf(j) = "redaction" THEN DecInFlight(tenantOf(j)) ELSE redactionInFlight
    BY DEF NextDrop, ReleaseRedactionInFlight, workVars, jobVars, indexVars
<1>3. WorkTypeOK' /\ RunningExact'
    <2>1. CASE UNCHANGED workVars BY <1>2, <2>1, WorkTypeFrame, RunningFrame DEF CountsExact
    <2>2. CASE ReleaseRedactionInFlight(tenantOf(j)) BY <1>0, <2>2, OthersKeep DEF CountsExact
    <2> QED BY <2>1, <2>2 DEF NextDrop
<1>4. TypeOK' BY <1>1, <1>3 DEF ProcTypeOK, EnvTypeOK, envVars
<1>5. InFlightExact' BY <1>1, <1>2, LeavesPipeline DEF kindOf, tenantOf
<1>6. JobInOnePlace' BY <1>1, <1>2, SubmittingFrame DEF JobInOnePlace, Known
<1>7. PendingAreRedactions' BY <1>1, <1>2 DEF PendingAreRedactions, kindOf
<1>8. DueArmed' BY <1>1, <1>2, DueFrame
<1>9. CallsAwaited' BY <1>1, CallsFrame DEF envVars
<1> QED BY <1>3, <1>4, <1>5, <1>6, <1>7, <1>8, <1>9 DEF CountsExact

LEMMA NextAssignKeeps ==
    ASSUME SchedulerInv, NEW w \in Workers, NEW j \in piped, NextAssign(w, j) PROVE SchedulerInv'
<1> USE DEF SchedulerInv, TypeOK
<1>0. j \in JobIDs /\ detail[j] \in Detail /\ tenantOf(j) \in Tenants /\ status[j] = "absent"
    BY DEF WorkTypeOK, ProcTypeOK, Detail, tenantOf, JobInOnePlace, Known
<1>1. piped' = piped \ {j} /\ UNCHANGED <<cprov, sub, calls, maint, live, written, restarted, issued, blocklist>>
    BY DEF NextAssign
<1>2. Injected(j) \in Detail /\ Injected(j).kind = kindOf(j) /\ Injected(j).tenant = tenantOf(j)
    <2>1. CASE kindOf(j) = "redaction"
        <3>1. batches[tenantOf(j)] \in Batch BY <1>0, <2>1 DEF NextAssign, WorkTypeOK
        <3>2. batches[tenantOf(j)].dryRun \in BOOLEAN BY <3>1 DEF Batch
        <3>3. Injected(j) = [detail[j] EXCEPT !.dryRun = batches[tenantOf(j)].dryRun] BY <2>1 DEF Injected
        <3> QED BY <1>0, <3>2, <3>3 DEF Detail, kindOf, tenantOf
    <2>2. CASE kindOf(j) # "redaction" BY <1>0, <2>2 DEF Injected, kindOf, tenantOf
    <2> QED BY <2>1, <2>2
<1>3. AddJob(j, w, Injected(j)) BY DEF NextAssign
<1>4. WorkTypeOK' /\ RunningExact' BY <1>0, <1>2, <1>3, AddJobKeeps DEF CountsExact
<1>5. /\ detail' = [detail EXCEPT ![j] = Injected(j)]
      /\ status' = [status EXCEPT ![j] = "running"]
      /\ redactionInFlight' = IF kindOf(j) = "redaction" THEN DecInFlight(tenantOf(j)) ELSE redactionInFlight
      /\ UNCHANGED <<pending, batches>>
    BY <1>3 DEF AddJob
<1>6. \A i \in JobIDs : kindOf(i)' = kindOf(i) /\ tenantOf(i)' = tenantOf(i)
    BY <1>2, <1>5 DEF WorkTypeOK, kindOf, tenantOf
<1>7. Known(status') = Known(status) \cup {j} BY <1>0, <1>5 DEF Known, WorkTypeOK
<1>8. pending \cap Known(status') = {} /\ Known(status') \subseteq issued BY <1>7 DEF JobInOnePlace
<1>9. /\ EnvTypeOK' /\ CallsAwaited' /\ disk' \in DiskType
      /\ disk'.pending \cap Known(disk'.status) = {}
      /\ disk'.pending \cup Known(disk'.status) \subseteq issued
      /\ disk'.pending \subseteq pending \cup disk.pending
    BY <1>0, <1>1, <1>4, <1>5, <1>8, DeliverKeeps DEF NextAssign
<1>10. TypeOK' BY <1>1, <1>4, <1>9 DEF ProcTypeOK
<1>11. InFlightExact' BY <1>1, <1>5, <1>6, LeavesPipeline DEF ProcTypeOK
<1>12. JobInOnePlace'
    <2>1. /\ pending' \cap piped' = {}
          /\ (pending' \cup piped') \cap Known(status') = {}
          /\ pending' \cup piped' \cup Known(status') \subseteq issued'
          /\ pending' \cup piped' \cup Known(status') = pending \cup piped \cup Known(status)
        BY <1>1, <1>5, <1>7 DEF JobInOnePlace
    <2>2. \A c \in Clients :
            /\ Submitting(c)' \subseteq issued' \ (pending' \cup piped' \cup Known(status'))
            /\ \A e \in Clients : e # c => Submitting(c)' \cap Submitting(e)' = {}
        BY <1>1, <2>1, SubmittingFrame DEF JobInOnePlace
    <2> QED BY <1>1, <1>9, <2>1, <2>2 DEF JobInOnePlace
<1>13. PendingAreRedactions' BY <1>5, <1>6, <1>9 DEF PendingAreRedactions, WorkTypeOK, DiskType
<1>14. DueArmed' BY <1>1, <1>5, DueFrame
<1> QED BY <1>4, <1>9, <1>10, <1>11, <1>12, <1>13, <1>14 DEF CountsExact

(***************************************************************************)
(* The workers: what they do to the object store is not seen by the        *)
(* invariant.                                                              *)
(***************************************************************************)
LEMMA ExecuteKeeps == ASSUME SchedulerInv, NEW w \in Workers, Execute(w) PROVE SchedulerInv'
<1> USE DEF SchedulerInv, TypeOK
<1>1. UNCHANGED <<workVars, procVars, restarted, issued, blocklist, disk>> BY DEF Execute
<1>2. /\ \E ok \in BOOLEAN, out \in SUBSET Blocks : Finish(w, ok, out)
      /\ live' \in SUBSET Blocks /\ written' \in SUBSET Blocks
    <2>1. CASE ExecuteCompaction(w, wk[w].job)
        BY <2>1 DEF ExecuteCompaction, Rewrite, NewBlocks, EnvTypeOK
    <2>2. CASE ExecuteRedaction(w, wk[w].job)
        BY <2>2 DEF ExecuteRedaction, Rewrite, NewBlocks, EnvTypeOK
    <2>3. CASE ExecuteRetention(w, wk[w].job)
        BY <2>3 DEF ExecuteRetention, Rewrite, EnvTypeOK
    <2> QED BY <2>1, <2>2, <2>3 DEF Execute
<1>3. PICK ok \in BOOLEAN, out \in SUBSET Blocks : Finish(w, ok, out) BY <1>2
<1>4. faults' \in Nat
    <2>1. NoFault \/ Fault("backend")
        BY DEF Execute, ExecuteCompaction, ExecuteRedaction, ExecuteRetention
    <2> QED BY <2>1 DEF NoFault, Fault, EnvTypeOK
<1>5. wk[w] \in WorkerType /\ wk[w].job \in JobIDs BY DEF EnvTypeOK, Execute
<1>6. [wk[w] EXCEPT !.pc = "report", !.ok = ok, !.out = out] \in WorkerType
      /\ [wk[w] EXCEPT !.pc = "report", !.ok = ok, !.out = out].job \in JobIDs
    BY <1>5 DEF WorkerType
<1>7. wk' \in [Workers -> WorkerType] BY <1>3, <1>6 DEF Finish, EnvTypeOK
<1>8. \A v \in Workers : wk'[v].pc # "idle" => wk'[v].job \in JobIDs BY <1>3, <1>6 DEF Finish, EnvTypeOK
<1>9. TypeOK' BY <1>1, <1>2, <1>4, <1>7, <1>8, WorkTypeFrame DEF ProcTypeOK, EnvTypeOK, procVars
<1>10. CallsAwaited'
    <2>1. \A c \in calls : c.worker # w BY DEF CallsAwaited, Execute
    <2> QED BY <1>1, <1>3, <2>1 DEF CallsAwaited, Finish, EnvTypeOK, procVars
<1>11. maint'.due = maint.due BY <1>1 DEF procVars
<1> QED BY <1>1, <1>9, <1>10, <1>11, Frame DEF procVars

LEMMA WorkerCallKeeps ==
    ASSUME SchedulerInv, NEW w \in Workers, SendReport(w) \/ LoseReply(w) \/ WorkerCrash(w)
    PROVE  SchedulerInv'
<1> USE DEF SchedulerInv, TypeOK
<1>1. UNCHANGED <<workVars, piped, cprov, sub, maint, live, written, restarted, issued, blocklist, disk>>
    BY DEF SendReport, LoseReply, WorkerCrash
<1>2. faults' \in Nat BY DEF SendReport, LoseReply, WorkerCrash, Fault, EnvTypeOK
<1>3. wk' \in [Workers -> WorkerType] /\ \A v \in Workers : wk'[v].pc # "idle" => wk'[v].job \in JobIDs
    <2>1. CASE SendReport(w) \/ LoseReply(w)
        <3>1. PICK pc \in {"wait", "report"} : wk' = [wk EXCEPT ![w].pc = pc] /\ wk[w].pc # "idle"
            BY <2>1 DEF SendReport, LoseReply
        <3>2. wk[w] \in WorkerType /\ wk[w].job \in JobIDs BY <3>1 DEF EnvTypeOK
        <3>3. [wk[w] EXCEPT !.pc = pc] \in WorkerType /\ [wk[w] EXCEPT !.pc = pc].job \in JobIDs
            BY <3>2 DEF WorkerType
        <3>4. wk' \in [Workers -> WorkerType] BY <3>1, <3>3 DEF EnvTypeOK
        <3> QED BY <3>1, <3>3, <3>4 DEF EnvTypeOK
    <2>2. CASE WorkerCrash(w)
        <3>1. wk' = [wk EXCEPT ![w] = IdleWorker] /\ IdleWorker \in WorkerType /\ IdleWorker.pc = "idle"
            BY <2>2, IdleTypes DEF WorkerCrash, IdleWorker
        <3> QED BY <3>1 DEF EnvTypeOK
    <2> QED BY <2>1, <2>2
<1>4. calls' \in SUBSET CallType
    <2>1. CASE SendReport(w)
        <3>1. wk[w] \in WorkerType /\ wk[w].job \in JobIDs BY <2>1 DEF EnvTypeOK, SendReport
        <3>2. [worker |-> w, job |-> wk[w].job, ok |-> wk[w].ok, out |-> wk[w].out, pc |-> "received"]
                \in CallType
            BY <3>1 DEF CallType, WorkerType
        <3> QED BY <2>1, <3>2 DEF SendReport, ProcTypeOK
    <2>2. CASE calls' = Orphaned(w)
        <3>1. \A c \in calls : [c EXCEPT !.worker = NoWorker] \in CallType BY DEF ProcTypeOK, CallType
        <3> QED BY <2>2, <3>1 DEF Orphaned, ProcTypeOK
    <2> QED BY <2>1, <2>2 DEF LoseReply, WorkerCrash
<1>5. TypeOK' BY <1>1, <1>2, <1>3, <1>4, WorkTypeFrame DEF ProcTypeOK, EnvTypeOK
<1>6. CallsAwaited'
    <2>1. CASE SendReport(w)
        <3>1. \A c \in calls : c.worker # w BY <2>1 DEF CallsAwaited, SendReport
        <3>2. wk'[w].pc = "wait" /\ \A v \in Workers : v # w => wk'[v] = wk[v]
            BY <2>1 DEF SendReport, EnvTypeOK, WorkerType
        <3> QED BY <2>1, <3>1, <3>2 DEF CallsAwaited, SendReport
    <2>2. CASE calls' = Orphaned(w) /\ \A v \in Workers : v # w => wk'[v] = wk[v]
        <3>1. \A c \in calls : [c EXCEPT !.worker = NoWorker].worker = NoWorker
            BY DEF ProcTypeOK, CallType
        <3>2. \A c \in calls' : c.worker \in Workers => c \in calls /\ c.worker # w
            BY <2>2, <3>1, WorkAssumption DEF Orphaned
        <3>3. \A c \in calls' : c.worker \in Workers => wk'[c.worker].pc = "wait"
            BY <2>2, <3>2 DEF CallsAwaited
        <3>4. \A c, e \in calls' : c.worker \in Workers /\ e.worker = c.worker => e = c
            BY <3>2 DEF CallsAwaited
        <3> QED BY <3>3, <3>4 DEF CallsAwaited
    <2> QED BY <2>1, <2>2 DEF LoseReply, WorkerCrash, EnvTypeOK
<1> QED BY <1>1, <1>5, <1>6, Frame

LEMMA PollKeeps == ASSUME SchedulerInv, Poll PROVE SchedulerInv'
<1> USE DEF SchedulerInv, TypeOK
<1>1. TypeOK' BY WorkTypeFrame DEF Poll, ProcTypeOK, EnvTypeOK, procVars, envVars
<1>2. maint'.due = maint.due /\ CallsAwaited' BY CallsFrame DEF Poll, procVars, envVars
<1> QED BY <1>1, <1>2, Frame DEF Poll, procVars

(***************************************************************************)
(* UpdateJob.                                                              *)
(***************************************************************************)
LEMMA ReplyTypes ==
    ASSUME EnvTypeOK, CallsAwaited, calls \in SUBSET CallType, NEW c \in calls, NEW pc \in {"ended", "flushed"},
           NEW ok \in BOOLEAN, Reply(c, ok) \/ Proceed(c, pc)
    PROVE  /\ calls' \in SUBSET CallType
           /\ wk' \in [Workers -> WorkerType]
           /\ \A w \in Workers : wk'[w].pc # "idle" => wk'[w].job \in JobIDs
           /\ CallsAwaited'
<1>0. c \in CallType OBVIOUS
<1>1. CASE Proceed(c, pc)
    <2>1. [c EXCEPT !.pc = pc] \in CallType /\ [c EXCEPT !.pc = pc].worker = c.worker BY <1>0 DEF CallType
    <2>2. CallsAwaited' BY <1>1, <2>1 DEF Proceed, CallsAwaited
    <2> QED BY <1>1, <2>1, <2>2 DEF Proceed, EnvTypeOK
<1>2. CASE Reply(c, ok) /\ c.worker = NoWorker BY <1>2 DEF Reply, EnvTypeOK, CallsAwaited
<1>3. CASE Reply(c, ok) /\ c.worker # NoWorker
    <2> DEFINE v == IF ok THEN IdleWorker ELSE [wk[c.worker] EXCEPT !.pc = "report"]
    <2>1. c.worker \in Workers BY <1>0, <1>3 DEF CallType
    <2>2. wk' = [wk EXCEPT ![c.worker] = v] BY <1>3 DEF Reply
    <2>3. calls' \in SUBSET CallType /\ \A e \in calls' : e \in calls /\ e.worker # c.worker
        BY <1>3, <2>1 DEF Reply, CallsAwaited
    <2>6. CallsAwaited' BY <2>2, <2>3 DEF CallsAwaited, EnvTypeOK
    <2>4. CASE ok
        <3>1. IdleWorker \in WorkerType /\ IdleWorker.pc = "idle" BY IdleTypes DEF IdleWorker
        <3> QED BY <2>1, <2>2, <2>3, <2>4, <2>6, <3>1 DEF EnvTypeOK
    <2>5. CASE ~ok
        <3>1. wk[c.worker] \in WorkerType /\ wk[c.worker].job \in JobIDs BY <2>1 DEF EnvTypeOK, CallsAwaited
        <3>2. [wk[c.worker] EXCEPT !.pc = "report"] \in WorkerType
              /\ [wk[c.worker] EXCEPT !.pc = "report"].job \in JobIDs
            BY <3>1 DEF WorkerType
        <3> QED BY <2>1, <2>2, <2>3, <2>5, <2>6, <3>2 DEF EnvTypeOK
    <2> QED BY <2>4, <2>5
<1> QED BY <1>1, <1>2, <1>3

LEMMA UpdateJobEndKeeps == ASSUME SchedulerInv, NEW c \in calls, UpdateJobEnd(c) PROVE SchedulerInv'
<1> USE DEF SchedulerInv, TypeOK
<1>0. c \in CallType /\ c.job \in JobIDs BY DEF ProcTypeOK, CallType
<1>1. UNCHANGED <<piped, cprov, sub, maint, live, written, faults, restarted, issued, blocklist, disk>>
    BY DEF UpdateJobEnd
<1>2. CASE status[c.job] = "absent"
    <2>1. Reply(c, FALSE) /\ UNCHANGED workVars BY <1>2 DEF UpdateJobEnd
    <2>2. /\ calls' \in SUBSET CallType /\ wk' \in [Workers -> WorkerType] /\ CallsAwaited'
          /\ \A w \in Workers : wk'[w].pc # "idle" => wk'[w].job \in JobIDs
        BY <2>1, ReplyTypes DEF ProcTypeOK
    <2>3. TypeOK' BY <1>1, <2>1, <2>2, WorkTypeFrame DEF ProcTypeOK, EnvTypeOK
    <2> QED BY <1>1, <2>1, <2>2, <2>3, Frame
<1>3. CASE status[c.job] # "absent"
    <2>1. PICK s \in {"succeeded", "failed"} : EndJob(c.job, s) BY <1>3 DEF UpdateJobEnd
    <2>2. Proceed(c, "ended") BY <1>3 DEF UpdateJobEnd
    <2>3. WorkTypeOK' /\ RunningExact' BY <1>0, <2>1, EndJobKeeps DEF CountsExact
    <2>4. /\ calls' \in SUBSET CallType /\ wk' \in [Workers -> WorkerType] /\ CallsAwaited'
          /\ \A w \in Workers : wk'[w].pc # "idle" => wk'[w].job \in JobIDs
        BY <2>2, ReplyTypes DEF ProcTypeOK
    <2>5. TypeOK' BY <1>1, <2>3, <2>4 DEF ProcTypeOK, EnvTypeOK
    <2>6. UNCHANGED <<detail, pending, redactionInFlight, batches>> /\ status' = [status EXCEPT ![c.job] = s]
        BY <2>1 DEF EndJob
    <2>7. Known(status') = Known(status) BY <1>0, <1>3, <2>6 DEF Known, WorkTypeOK
    <2>8. InFlightExact' BY <1>1, <2>6, InFlightFrame DEF CountsExact, kindOf, tenantOf
    <2>9. JobInOnePlace' BY <1>1, <2>6, <2>7, SubmittingFrame DEF JobInOnePlace
    <2>10. PendingAreRedactions' BY <1>1, <2>6 DEF PendingAreRedactions, kindOf
    <2>11. DueArmed' BY <1>1, <2>6, DueFrame
    <2> QED BY <2>3, <2>4, <2>5, <2>8, <2>9, <2>10, <2>11 DEF CountsExact
<1> QED BY <1>2, <1>3

(***************************************************************************)
(* A batch whose rescan is pending is active, so no clean-up touches it.   *)
(***************************************************************************)
LEMMA CleanupType ==
    ASSUME NEW b \in Batch \cup {NoBatch}, NEW t
    PROVE  /\ cleanupBatchIfDone(b, t) \in Batch \cup {NoBatch}
           /\ b \in Batch /\ b.rescan => cleanupBatchIfDone(b, t) = b
<1>1. b \in Batch => [b EXCEPT !.quiesce = QuiescenceSweeps + 1] \in Batch BY DEF Batch, QuiescenceSweeps
<1> QED BY <1>1 DEF cleanupBatchIfDone, redactionBatchActive

LEMMA UpdateJobRecordKeeps == ASSUME SchedulerInv, NEW c \in calls, UpdateJobRecord(c) PROVE SchedulerInv'
<1> USE DEF SchedulerInv, TypeOK
<1>0. c.job \in JobIDs /\ c.out \in SUBSET Blocks /\ tenantOf(c.job) \in Tenants
    BY DEF ProcTypeOK, CallType, WorkTypeOK, Detail, tenantOf
<1> DEFINE t == tenantOf(c.job)
<1>1. UNCHANGED <<piped, cprov, sub, maint, live, written, restarted, issued, blocklist>>
    BY DEF UpdateJobRecord
<1>2. batches[t] \in Batch \cup {NoBatch} BY <1>0 DEF WorkTypeOK
<1>3. \/ SetBatch(t, cleanupBatchIfDone(batches[t], t))
      \/ SetJobCompactionOutput(c.job, c.out)
      \/ UNCHANGED workVars
    BY DEF UpdateJobRecord
<1>4. WorkTypeOK' /\ RunningExact'
    <2>1. CASE SetBatch(t, cleanupBatchIfDone(batches[t], t))
        BY <1>0, <1>2, <2>1, CleanupType, OthersKeep DEF CountsExact
    <2>2. CASE SetJobCompactionOutput(c.job, c.out) BY <1>0, <2>2, OthersKeep DEF CountsExact
    <2>3. CASE UNCHANGED workVars
        BY <2>3, WorkTypeFrame, RunningFrame DEF CountsExact, workVars, jobVars, indexVars
    <2> QED BY <1>3, <2>1, <2>2, <2>3
<1>5. UNCHANGED <<detail, status, pending, redactionInFlight>>
    BY <1>3 DEF SetBatch, SetJobCompactionOutput, workVars, jobVars, indexVars
<1>6. \A u \in Tenants : batches[u] # NoBatch /\ batches[u].rescan => batches'[u] = batches[u]
    <2>1. CASE SetBatch(t, cleanupBatchIfDone(batches[t], t))
        BY <1>0, <1>2, <2>1, CleanupType DEF SetBatch, WorkTypeOK
    <2>2. CASE batches' = batches BY <2>2
    <2> QED BY <1>3, <2>1, <2>2 DEF SetJobCompactionOutput, workVars
<1>7. PICK manifest \in BOOLEAN, saved \in BOOLEAN :
        /\ disk' = Flushed(IF saved THEN {ShardOf[c.job]} ELSE {}, manifest)
        /\ IF saved /\ c.ok THEN Proceed(c, "flushed") ELSE Reply(c, saved)
        /\ NoFault \/ Fault("flush")
    BY DEF UpdateJobRecord
<1>8. faults' \in Nat BY <1>7 DEF NoFault, Fault, EnvTypeOK
<1>9. /\ calls' \in SUBSET CallType /\ wk' \in [Workers -> WorkerType] /\ CallsAwaited'
      /\ \A w \in Workers : wk'[w].pc # "idle" => wk'[w].job \in JobIDs
    BY <1>7, ReplyTypes DEF ProcTypeOK
<1>10. /\ pending' \cap Known(status') = {} /\ pending' \cup Known(status') \subseteq issued'
    BY <1>1, <1>5 DEF JobInOnePlace
<1>11. /\ disk' \in DiskType
       /\ disk'.pending \cap Known(disk'.status) = {}
       /\ disk'.pending \cup Known(disk'.status) \subseteq issued'
       /\ disk'.pending \subseteq pending' \cup disk.pending
    BY <1>1, <1>4, <1>7, <1>10, FlushedPlaced
<1>12. TypeOK' BY <1>1, <1>4, <1>8, <1>9, <1>11 DEF ProcTypeOK, EnvTypeOK
<1>13. InFlightExact' BY <1>1, <1>5, InFlightFrame DEF CountsExact, kindOf, tenantOf
<1>14. JobInOnePlace' BY <1>1, <1>5, <1>11, SubmittingFrame DEF JobInOnePlace, Known
<1>15. PendingAreRedactions' BY <1>5, <1>11 DEF PendingAreRedactions, kindOf
<1>16. DueArmed' BY <1>1, <1>6 DEF DueArmed, ProcTypeOK, TickType
<1> QED BY <1>4, <1>9, <1>12, <1>13, <1>14, <1>15, <1>16 DEF CountsExact

LEMMA UpdateJobApplyKeeps == ASSUME SchedulerInv, NEW c \in calls, UpdateJobApply(c) PROVE SchedulerInv'
<1> USE DEF SchedulerInv, TypeOK
<1>1. /\ UNCHANGED <<workVars, piped, cprov, sub, maint, live, written, faults, restarted, disk, issued>>
      /\ Reply(c, TRUE)
    BY DEF UpdateJobApply
<1>2. /\ calls' \in SUBSET CallType /\ wk' \in [Workers -> WorkerType] /\ CallsAwaited'
      /\ \A w \in Workers : wk'[w].pc # "idle" => wk'[w].job \in JobIDs
    BY <1>1, ReplyTypes DEF ProcTypeOK
<1>3. blocklist' \in SUBSET Blocks BY DEF UpdateJobApply
<1>4. TypeOK' BY <1>1, <1>2, <1>3, WorkTypeFrame DEF ProcTypeOK, EnvTypeOK
<1> QED BY <1>1, <1>2, <1>4, Frame

(***************************************************************************)
(* SubmitRedaction.                                                        *)
(***************************************************************************)
LEMMA SubmittingStep ==
    ASSUME sub \in [Clients -> ClientType], NEW c \in Clients, NEW r \in ClientType,
           sub' = [sub EXCEPT ![c] = r]
    PROVE  /\ sub' \in [Clients -> ClientType]
           /\ Submitting(c)' = {r.jobs[b] : b \in DOMAIN r.jobs}
           /\ \A e \in Clients : e # c => Submitting(e)' = Submitting(e)
           /\ r.jobs = NoJobs => Submitting(c)' = {}
BY DEF Submitting, NoJobs

LEMMA NoJobsType == NoJobs \in UNION {[S -> JobIDs] : S \in SUBSET Blocks}
<1>1. NoJobs \in [{} -> JobIDs] BY DEF NoJobs
<1> QED BY <1>1

LEMMA SubmitSnapshotKeeps ==
    ASSUME SchedulerInv, NEW c \in Clients, NEW t \in Tenants, NEW m \in Modes, SubmitSnapshot(c, t, m)
    PROVE  SchedulerInv'
<1> USE DEF SchedulerInv, TypeOK
<1> DEFINE r == [pc |-> "metas", tenant |-> t, dryRun |-> m, blocks |-> BlockMetas(t), jobs |-> NoJobs,
                 ticks |-> 0]
<1>1. UNCHANGED <<workVars, piped, cprov, calls, maint, envVars, issued, blocklist, disk>>
      /\ sub' = [sub EXCEPT ![c] = r]
    BY DEF SubmitSnapshot
<1>2. r \in ClientType /\ r.jobs = NoJobs BY NoJobsType DEF ClientType, BlockMetas
<1>3. UNCHANGED <<status, detail, pending, redactionInFlight, runningByTenant, batches>>
    BY <1>1 DEF workVars, jobVars, indexVars
<1> HIDE DEF r
<1>4. /\ sub' \in [Clients -> ClientType] /\ Submitting(c)' = {}
      /\ \A e \in Clients : e # c => Submitting(e)' = Submitting(e)
    BY <1>1, <1>2, SubmittingStep DEF ProcTypeOK
<1>5. TypeOK' BY <1>1, <1>4, WorkTypeFrame DEF ProcTypeOK, EnvTypeOK, envVars
<1>6. CountsExact' BY <1>1, <1>3, InFlightFrame, RunningFrame DEF CountsExact, kindOf, tenantOf
<1>7. JobInOnePlace' BY <1>1, <1>3, <1>4 DEF JobInOnePlace, Known
<1>8. PendingAreRedactions' BY <1>1, <1>3 DEF PendingAreRedactions, kindOf
<1>9. DueArmed' /\ CallsAwaited' BY <1>1, <1>3, DueFrame, CallsFrame DEF envVars
<1> QED BY <1>5, <1>6, <1>7, <1>8, <1>9

LEMMA BusyJobType ==
    ASSUME WorkTypeOK, NEW t, NEW b \in BusyBlocks(t) PROVE BusyJob(b) \in JobIDs
BY DEF BusyBlocks, BusyJob, WorkTypeOK

LEMMA SubmitAddBatchKeeps == ASSUME SchedulerInv, NEW c \in Clients, SubmitAddBatch(c) PROVE SchedulerInv'
<1> USE DEF SchedulerInv, TypeOK
<1> DEFINE t == sub[c].tenant
           busy == sub[c].blocks \cap BusyBlocks(t)
           skipped == {BusyJob(b) : b \in busy}
           free == sub[c].blocks \ busy
           dryRun == sub[c].dryRun
           arm == skipped # {} /\ ~dryRun
           batch == [dryRun |-> dryRun, skipped |-> IF arm THEN skipped ELSE {}, rescan |-> arm, quiesce |-> 0]
<1>0. sub[c] \in ClientType /\ t \in Tenants /\ dryRun \in BOOLEAN /\ sub[c].blocks \in SUBSET Blocks
    BY DEF ProcTypeOK, ClientType
<1>1. UNCHANGED <<piped, cprov, calls, maint, envVars, blocklist, disk>> BY DEF SubmitAddBatch
<1>2. CASE sub' = [sub EXCEPT ![c] = IdleClient(AnyTenant)] /\ UNCHANGED <<workVars, issued>>
    <2>1. IdleClient(AnyTenant) \in ClientType /\ IdleClient(AnyTenant).jobs = NoJobs
        BY IdleTypes DEF IdleClient
    <2>2. /\ sub' \in [Clients -> ClientType] /\ Submitting(c)' = {}
          /\ \A e \in Clients : e # c => Submitting(e)' = Submitting(e)
        BY <1>2, <2>1, SubmittingStep DEF ProcTypeOK
    <2>3. UNCHANGED <<status, detail, pending, redactionInFlight, runningByTenant, batches>>
        BY <1>2 DEF workVars, jobVars, indexVars
    <2>4. TypeOK' BY <1>1, <1>2, <2>2, WorkTypeFrame DEF ProcTypeOK, EnvTypeOK, envVars
    <2>5. CountsExact' BY <1>1, <2>3, InFlightFrame, RunningFrame DEF CountsExact, kindOf, tenantOf
    <2>6. JobInOnePlace' BY <1>1, <1>2, <2>2, <2>3 DEF JobInOnePlace, Known
    <2>7. PendingAreRedactions' BY <1>1, <2>3 DEF PendingAreRedactions, kindOf
    <2>8. DueArmed' /\ CallsAwaited' BY <1>1, <2>3, DueFrame, CallsFrame DEF envVars
    <2> QED BY <2>4, <2>5, <2>6, <2>7, <2>8
<1>3. CASE /\ batches[t] = NoBatch /\ SetBatch(t, batch)
           /\ \E f \in NewJobPerBlock(free) :
                /\ sub' = [sub EXCEPT ![c] = [@ EXCEPT !.pc = "added", !.blocks = {}, !.jobs = f]]
                /\ issued' = issued \cup {f[b] : b \in free}
    <2>1. PICK f \in NewJobPerBlock(free) :
                /\ sub' = [sub EXCEPT ![c] = [sub[c] EXCEPT !.pc = "added", !.blocks = {}, !.jobs = f]]
                /\ issued' = issued \cup {f[b] : b \in free}
        BY <1>3
    <2> DEFINE r == [sub[c] EXCEPT !.pc = "added", !.blocks = {}, !.jobs = f]
               new == {f[b] : b \in free}
    <2>2. free \in SUBSET Blocks /\ f \in [free -> NewJobs] BY <1>0 DEF NewJobPerBlock
    <2>3. new \in SUBSET NewJobs /\ new \in SUBSET JobIDs /\ new \cap issued = {}
        BY <2>2 DEF NewJobs
    <2>4. f \in UNION {[S -> JobIDs] : S \in SUBSET Blocks}
        <3>1. f \in [free -> JobIDs] BY <2>2 DEF NewJobs
        <3> HIDE DEF free
        <3> QED BY <2>2, <3>1
    <2>5. r \in ClientType /\ r.jobs = f BY <1>0, <2>4 DEF ClientType
    <2>6. batch \in Batch
        <3>1. skipped \in SUBSET JobIDs BY BusyJobType
        <3> HIDE DEF skipped
        <3>2. arm \in BOOLEAN /\ (IF arm THEN skipped ELSE {}) \in SUBSET JobIDs BY <3>1
        <3> HIDE DEF arm, dryRun
        <3> QED BY <1>0, <3>2 DEF Batch
    <2>7. WorkTypeOK' /\ RunningExact'
        <3> HIDE DEF batch
        <3> QED BY <1>0, <1>3, <2>6, OthersKeep DEF CountsExact
    <2>8. DOMAIN f = free BY <2>2
    <2>9. /\ sub' \in [Clients -> ClientType] /\ Submitting(c)' = new
          /\ \A e \in Clients : e # c => Submitting(e)' = Submitting(e)
        <3> HIDE DEF free
        <3>1. sub' = [sub EXCEPT ![c] = r] BY <2>1
        <3> HIDE DEF r
        <3>2. /\ sub' \in [Clients -> ClientType]
              /\ Submitting(c)' = {r.jobs[b] : b \in DOMAIN r.jobs}
              /\ \A e \in Clients : e # c => Submitting(e)' = Submitting(e)
            BY <2>5, <3>1, SubmittingStep DEF ProcTypeOK
        <3>3. {r.jobs[b] : b \in DOMAIN r.jobs} = new BY <2>5, <2>8
        <3> QED BY <3>2, <3>3
    <2>10. UNCHANGED <<status, detail, pending, redactionInFlight>> BY <1>3 DEF SetBatch, jobVars, indexVars
    <2>11. \A u \in Tenants : u # t => batches'[u] = batches[u] BY <1>3 DEF SetBatch, WorkTypeOK
    <2>12. issued' = issued \cup new BY <2>1
    <2> HIDE DEF new, free
    <2>13. TypeOK' BY <1>1, <2>3, <2>7, <2>9, <2>12 DEF ProcTypeOK, EnvTypeOK, envVars
    <2>14. InFlightExact' BY <1>1, <2>10, InFlightFrame DEF CountsExact, kindOf, tenantOf
    <2>15. JobInOnePlace'
        <3>1. /\ pending' \cup piped' \cup Known(status') \subseteq issued
              /\ pending' \cup piped' \cup Known(status') = pending \cup piped \cup Known(status)
            BY <1>1, <2>10 DEF JobInOnePlace
        <3>2. ASSUME NEW e \in Clients
              PROVE  Submitting(e)' \subseteq issued' \ (pending' \cup piped' \cup Known(status'))
            <4>1. CASE e = c BY <2>3, <2>9, <2>12, <3>1, <4>1
            <4>2. CASE e # c BY <2>9, <2>12, <3>1, <4>2 DEF JobInOnePlace
            <4> QED BY <4>1, <4>2
        <3>3. \A d, e \in Clients : e # d => Submitting(d)' \cap Submitting(e)' = {}
            BY <2>3, <2>9 DEF JobInOnePlace
        <3> QED BY <1>1, <2>10, <2>12, <3>1, <3>2, <3>3 DEF JobInOnePlace
    <2>16. PendingAreRedactions' BY <1>1, <2>10 DEF PendingAreRedactions, kindOf
    <2>17. DueArmed' BY <1>1, <1>3, <2>11 DEF DueArmed, ProcTypeOK, TickType
    <2>18. CallsAwaited' BY <1>1, CallsFrame DEF envVars
    <2> QED BY <2>7, <2>13, <2>14, <2>15, <2>16, <2>17, <2>18 DEF CountsExact
<1> QED BY <1>2, <1>3 DEF SubmitAddBatch

(***************************************************************************)
(* New redaction jobs become pending: after a submission and after a       *)
(* rescan.                                                                 *)
(***************************************************************************)
LEMMA FlushBatchesKeeps ==
    ASSUME SchedulerInv, WorkTypeOK', issued \subseteq issued', pending' \cap Known(status') = {},
           pending' \cup Known(status') \subseteq issued', NEW S, FlushBatches(S)
    PROVE  /\ disk' \in DiskType /\ faults' \in Nat
           /\ disk'.pending \cap Known(disk'.status) = {}
           /\ disk'.pending \cup Known(disk'.status) \subseteq issued'
           /\ disk'.pending \subseteq pending' \cup disk.pending
<1> USE DEF SchedulerInv, TypeOK
<1>1. NoFault \/ Fault("flush") BY DEF FlushBatches
<1>2. faults' \in Nat BY <1>1 DEF NoFault, Fault, EnvTypeOK
<1>3. CASE disk' = Flushed(S, TRUE) BY <1>2, <1>3, FlushedPlaced
<1>4. CASE \E m \in BOOLEAN, T \in SUBSET S : disk' = Flushed(T, m)
    <2>1. PICK m \in BOOLEAN, T \in SUBSET S : disk' = Flushed(T, m) BY <1>4
    <2> QED BY <1>2, <2>1, FlushedPlaced
<1> QED BY <1>3, <1>4 DEF FlushBatches

LEMMA EnqueuedKeeps ==
    ASSUME SchedulerInv, NEW t \in Tenants, NEW S \in SUBSET Blocks, NEW f \in [S -> JobIDs],
           NEW new, new = {f[b] : b \in S}, new \cap (pending \cup piped \cup Known(status)) = {},
           AddPendingJobs(f, t), issued' = issued \cup new, FlushBatches(ShardsOf(new)),
           UNCHANGED <<piped, cprov, calls, wk, live, written, restarted, blocklist>>,
           sub' \in [Clients -> ClientType], maint' \in TickType, maint'.due \subseteq maint.due,
           \A c \in Clients : Submitting(c)' \subseteq Submitting(c) /\ Submitting(c)' \cap new = {}
    PROVE  SchedulerInv'
<1> USE DEF SchedulerInv, TypeOK
<1>0. new \in SUBSET JobIDs OBVIOUS
<1>1. \A b \in S : status[f[b]] = "absent" BY DEF Known
<1>2. WorkTypeOK' /\ RunningExact' BY <1>1, AddPendingJobsKeeps DEF CountsExact
<1>3. /\ pending' = pending \cup new
      /\ UNCHANGED <<status, redactionInFlight, batches>>
      /\ \A j \in JobIDs \ new : detail'[j] = detail[j]
      /\ \A j \in new : detail'[j].kind = "redaction"
    <2>1. DOMAIN f = S OBVIOUS
    <2>2. pending' = pending \cup new BY <2>1 DEF AddPendingJobs
    <2>3. \A j \in JobIDs : (\E b \in DOMAIN f : f[b] = j) <=> j \in new BY <2>1
    <2>4. detail' = [j \in JobIDs |->
                       IF \E b \in DOMAIN f : f[b] = j
                       THEN [kind |-> "redaction", tenant |-> t,
                             blocks |-> {b \in DOMAIN f : f[b] = j}, dryRun |-> FALSE]
                       ELSE detail[j]]
        BY DEF AddPendingJobs
    <2>5. \A j \in JobIDs \ new : detail'[j] = detail[j] BY <2>3, <2>4
    <2>6. \A j \in new : detail'[j].kind = "redaction" BY <1>0, <2>3, <2>4
    <2> QED BY <2>2, <2>5, <2>6 DEF AddPendingJobs
<1>4. pending' \cap Known(status') = {} /\ pending' \cup Known(status') \subseteq issued'
    BY <1>3 DEF JobInOnePlace
<1>5. /\ disk' \in DiskType /\ faults' \in Nat
      /\ disk'.pending \cap Known(disk'.status) = {}
      /\ disk'.pending \cup Known(disk'.status) \subseteq issued'
      /\ disk'.pending \subseteq pending' \cup disk.pending
    BY <1>2, <1>4, FlushBatchesKeeps
<1>6. TypeOK' BY <1>0, <1>2, <1>5 DEF ProcTypeOK, EnvTypeOK
<1>7. InFlightExact'
    <2>1. \A j \in piped : kindOf(j)' = kindOf(j) /\ tenantOf(j)' = tenantOf(j)
        BY <1>3 DEF ProcTypeOK, kindOf, tenantOf
    <2> QED BY <1>3, <2>1, InFlightFrame DEF CountsExact
<1>8. JobInOnePlace'
    <2>1. /\ pending' \cap piped' = {}
          /\ (pending' \cup piped') \cap Known(status') = {}
          /\ pending' \cup piped' \cup Known(status') \subseteq issued'
        BY <1>3 DEF JobInOnePlace
    <2>2. \A c \in Clients : Submitting(c)' \subseteq issued' \ (pending' \cup piped' \cup Known(status'))
        BY <1>3 DEF JobInOnePlace
    <2>3. \A c, e \in Clients : e # c => Submitting(c)' \cap Submitting(e)' = {}
        BY DEF JobInOnePlace
    <2> QED BY <1>5, <2>1, <2>2, <2>3 DEF JobInOnePlace
<1>9. PendingAreRedactions'
    BY <1>3, <1>5 DEF PendingAreRedactions, kindOf, WorkTypeOK, DiskType
<1>10. DueArmed' /\ CallsAwaited' BY <1>3, DueFrame, CallsFrame
<1> QED BY <1>2, <1>6, <1>7, <1>8, <1>9, <1>10 DEF CountsExact

LEMMA SubmitEnqueueKeeps == ASSUME SchedulerInv, NEW c \in Clients, SubmitEnqueue(c) PROVE SchedulerInv'
<1> USE DEF SchedulerInv, TypeOK
<1> DEFINE f == sub[c].jobs
           new == Submitting(c)
<1>1. PICK S \in SUBSET Blocks : f \in [S -> JobIDs] BY DEF ProcTypeOK, ClientType
<1>2. new = {f[b] : b \in S} /\ new = {f[b] : b \in DOMAIN f} BY <1>1 DEF Submitting
<1>3. sub[c].tenant \in Tenants BY DEF ProcTypeOK, ClientType
<1>4. new \cap (pending \cup piped \cup Known(status)) = {} /\ new \subseteq issued BY DEF JobInOnePlace
<1>5. /\ AddPendingJobs(f, sub[c].tenant) /\ FlushBatches(ShardsOf({f[b] : b \in DOMAIN f}))
      /\ sub' = [sub EXCEPT ![c] = IdleClient(AnyTenant)]
      /\ UNCHANGED <<piped, cprov, calls, maint, wk, live, written, restarted, issued, blocklist>>
    BY DEF SubmitEnqueue
<1>6. IdleClient(AnyTenant) \in ClientType /\ IdleClient(AnyTenant).jobs = NoJobs BY IdleTypes DEF IdleClient
<1>7. /\ sub' \in [Clients -> ClientType] /\ Submitting(c)' = {}
      /\ \A e \in Clients : e # c => Submitting(e)' = Submitting(e)
    BY <1>5, <1>6, SubmittingStep DEF ProcTypeOK
<1>8. \A e \in Clients : Submitting(e)' \subseteq Submitting(e) /\ Submitting(e)' \cap new = {}
    BY <1>7 DEF JobInOnePlace
<1>9. issued' = issued \cup new /\ maint' \in TickType /\ maint'.due \subseteq maint.due
    BY <1>4, <1>5 DEF ProcTypeOK
<1>10. FlushBatches(ShardsOf(new)) BY <1>2, <1>5
<1> HIDE DEF f, new
<1> QED BY <1>1, <1>2, <1>3, <1>4, <1>5, <1>7, <1>8, <1>9, <1>10, EnqueuedKeeps

LEMMA RescanEnqueueKeeps == ASSUME SchedulerInv, RescanEnqueue PROVE SchedulerInv'
<1> USE DEF SchedulerInv, TypeOK
<1>1. maint.tenant \in Tenants /\ maint.ready \in SUBSET Blocks /\ maint.due \in SUBSET Tenants
    BY DEF ProcTypeOK, TickType
<1>2. PICK f \in NewJobPerBlock(maint.ready) :
        /\ AddPendingJobs(f, maint.tenant)
        /\ FlushBatches(ShardsOf({f[b] : b \in maint.ready}))
        /\ issued' = issued \cup {f[b] : b \in maint.ready}
    BY DEF RescanEnqueue
<1>3. f \in [maint.ready -> JobIDs] /\ \A b \in maint.ready : f[b] \notin issued
    BY DEF NewJobPerBlock, NewJobs
<1> DEFINE new == {f[b] : b \in maint.ready}
<1>4. new \cap issued = {} BY <1>3
<1>5. new \cap (pending \cup piped \cup Known(status)) = {} BY <1>4 DEF JobInOnePlace
<1>6. /\ maint' = [IdleTick(AnyTenant) EXCEPT !.pc = "sweep", !.due = maint.due]
      /\ UNCHANGED <<piped, cprov, sub, calls, wk, live, written, restarted, blocklist>>
    BY DEF RescanEnqueue
<1>7. maint' \in TickType /\ maint'.due = maint.due
    BY <1>1, <1>6, AnyTenantType DEF IdleTick, TickType
<1>8. sub' \in [Clients -> ClientType] BY <1>6 DEF ProcTypeOK
<1>9. \A e \in Clients : Submitting(e)' \subseteq Submitting(e) /\ Submitting(e)' \cap new = {}
    <2> HIDE DEF new
    <2> QED BY <1>4, <1>6, SubmittingFrame DEF JobInOnePlace
<1>10. FlushBatches(ShardsOf(new)) /\ issued' = issued \cup new BY <1>2
<1>11. new = {f[b] : b \in maint.ready} OBVIOUS
<1> HIDE DEF new
<1> QED BY <1>1, <1>2, <1>3, <1>5, <1>6, <1>7, <1>8, <1>9, <1>10, <1>11, EnqueuedKeeps

(***************************************************************************)
(* The maintenance tick.                                                   *)
(***************************************************************************)
LEMMA MaintenanceTickKeeps ==
    ASSUME SchedulerInv, NEW dead \in SUBSET {j \in JobIDs : IsActive(j)}, NEW old \in SUBSET Prunable,
           NEW due \in SUBSET Armed, MaintenanceTick(dead, old, due)
    PROVE  SchedulerInv'
<1> USE DEF SchedulerInv, TypeOK
<1>1. /\ Prune(dead, old) /\ maint' = [maint EXCEPT !.pc = "sweep", !.due = due]
      /\ sub' = [c \in Clients |-> IF sub[c].pc = "added" THEN [sub[c] EXCEPT !.ticks = 1] ELSE sub[c]]
      /\ UNCHANGED <<piped, cprov, calls, wk, live, written, restarted, issued, blocklist, disk>>
    BY DEF MaintenanceTick
<1>2. old \in SUBSET {i \in JobIDs : ~IsActive(i)} BY DEF Prunable, IsActive
<1>3. WorkTypeOK' /\ RunningExact' BY <1>1, <1>2, PruneKeeps DEF CountsExact
<1>4. faults' \in Nat BY DEF MaintenanceTick, NoFault, Fault, EnvTypeOK
<1>5. maint' \in TickType /\ maint'.due = due BY <1>1 DEF ProcTypeOK, TickType, Armed
<1>6. /\ sub' \in [Clients -> ClientType]
      /\ \A c \in Clients : Submitting(c)' = Submitting(c)
    <2>1. ASSUME NEW c \in Clients PROVE sub'[c] \in ClientType /\ sub'[c].jobs = sub[c].jobs
        <3>1. sub[c] \in ClientType BY DEF ProcTypeOK
        <3>2. [sub[c] EXCEPT !.ticks = 1] \in ClientType /\ [sub[c] EXCEPT !.ticks = 1].jobs = sub[c].jobs
            BY <3>1 DEF ClientType
        <3> QED BY <1>1, <3>1, <3>2
    <2>2. sub' \in [Clients -> ClientType] BY <1>1, <2>1
    <2> QED BY <2>1, <2>2 DEF Submitting
<1>7. TypeOK' BY <1>1, <1>3, <1>4, <1>5, <1>6 DEF ProcTypeOK, EnvTypeOK
<1>8. /\ UNCHANGED <<detail, pending, redactionInFlight, batches>>
      /\ \A j \in JobIDs : status'[j] # "absent" => status[j] # "absent"
    <2>1. status' = [j \in JobIDs |-> IF j \in dead THEN "failed" ELSE IF j \in old THEN "absent" ELSE status[j]]
        BY <1>1 DEF Prune
    <2>2. \A j \in dead : status[j] # "absent" BY DEF IsActive
    <2> QED BY <1>1, <2>1, <2>2 DEF Prune
<1>9. Known(status') \subseteq Known(status) BY <1>8 DEF Known
<1>10. InFlightExact' BY <1>1, <1>8, InFlightFrame DEF CountsExact, kindOf, tenantOf
<1>11. JobInOnePlace'
    <2>1. \A c \in Clients : Submitting(c)' \subseteq issued' \ (pending' \cup piped' \cup Known(status'))
        BY <1>1, <1>6, <1>8, <1>9 DEF JobInOnePlace
    <2>2. \A c, e \in Clients : e # c => Submitting(c)' \cap Submitting(e)' = {} BY <1>6 DEF JobInOnePlace
    <2>3. /\ pending' \cap piped' = {}
          /\ (pending' \cup piped') \cap Known(status') = {}
          /\ pending' \cup piped' \cup Known(status') \subseteq issued'
        BY <1>1, <1>8, <1>9 DEF JobInOnePlace
    <2> QED BY <1>1, <2>1, <2>2, <2>3 DEF JobInOnePlace
<1>12. PendingAreRedactions' BY <1>1, <1>8 DEF PendingAreRedactions, kindOf
<1>13. DueArmed' BY <1>5, <1>8 DEF DueArmed, Armed
<1>14. CallsAwaited' BY <1>1, CallsFrame
<1> QED BY <1>3, <1>7, <1>10, <1>11, <1>12, <1>13, <1>14 DEF CountsExact

LEMMA RescanBeginKeeps == ASSUME SchedulerInv, NEW t \in Tenants, RescanBegin(t) PROVE SchedulerInv'
<1> USE DEF SchedulerInv, TypeOK
<1>1. UNCHANGED <<workVars, piped, cprov, sub, calls, envVars, issued, blocklist, disk>> BY DEF RescanBegin
<1>2. batches[t] \in Batch BY DEF RescanBegin, DueArmed, WorkTypeOK
<1>3. maint' \in TickType /\ maint'.due \subseteq maint.due
    BY <1>2 DEF RescanBegin, Batch, ProcTypeOK, TickType
<1>4. TypeOK' BY <1>1, <1>3, WorkTypeFrame DEF ProcTypeOK, EnvTypeOK, envVars
<1> QED BY <1>1, <1>3, <1>4, Frame, CallsFrame DEF envVars

LEMMA RescanRoundKeeps == ASSUME SchedulerInv, RescanRound PROVE SchedulerInv'
<1> USE DEF SchedulerInv, TypeOK
<1> DEFINE t == maint.tenant
           listed == {j \in maint.ids : status[j] # "absent"}
           running == {j \in listed : status[j] # "succeeded"}
           outputs == UNION {output[j] : j \in listed \ running}
           busy == outputs \cap BusyBlocks(t)
           next == {BusyJob(b) : b \in busy}
           ready == maint.ready \cup (outputs \ busy)
           round == [maint EXCEPT !.ready = ready]
<1>0. maint \in TickType BY DEF ProcTypeOK
<1>1. UNCHANGED <<workVars, piped, cprov, sub, calls, envVars, issued, blocklist, disk>> BY DEF RescanRound
<1>2. running \in SUBSET JobIDs BY <1>0 DEF TickType
<1>3. outputs \in SUBSET Blocks BY <1>0 DEF TickType, WorkTypeOK
<1>4. next \in SUBSET JobIDs BY BusyJobType
<1>5. ready \in SUBSET Blocks BY <1>0, <1>3 DEF TickType
<1>6. maint' = IF running # {} THEN [round EXCEPT !.pc = "commit", !.ids = running \cup next]
               ELSE IF next = {} \/ maint.gen + 1 = MaxRescanGenerations
               THEN [round EXCEPT !.pc = "commit", !.ids = {}]
               ELSE [round EXCEPT !.ids = next, !.gen = @ + 1]
    BY DEF RescanRound
<1> HIDE DEF running, next, ready
<1>7. round \in TickType /\ round.due = maint.due /\ round.gen \in Nat BY <1>0, <1>5 DEF TickType
<1> HIDE DEF round
<1>8. maint' \in TickType /\ maint'.due = maint.due
    <2>1. running \cup next \in SUBSET JobIDs BY <1>2, <1>4
    <2>2. \A ids \in SUBSET JobIDs : /\ [round EXCEPT !.pc = "commit", !.ids = ids] \in TickType
                                     /\ [round EXCEPT !.pc = "commit", !.ids = ids].due = round.due
        BY <1>7 DEF TickType
    <2>3. /\ [round EXCEPT !.ids = next, !.gen = @ + 1] \in TickType
          /\ [round EXCEPT !.ids = next, !.gen = @ + 1].due = round.due
        <3>1. \A ids \in SUBSET JobIDs, n \in Nat :
                /\ [round EXCEPT !.ids = ids, !.gen = n] \in TickType
                /\ [round EXCEPT !.ids = ids, !.gen = n].due = round.due
            BY <1>7 DEF TickType
        <3>2. round.gen + 1 \in Nat BY <1>7
        <3> QED BY <1>4, <3>1, <3>2
    <2>4. CASE running # {} BY <1>6, <1>7, <2>1, <2>2, <2>4
    <2>5. CASE running = {} /\ (next = {} \/ maint.gen + 1 = MaxRescanGenerations)
        <3>1. maint' = [round EXCEPT !.pc = "commit", !.ids = {}] BY <1>6, <2>5
        <3> QED BY <1>7, <2>2, <3>1
    <2>6. CASE running = {} /\ ~(next = {} \/ maint.gen + 1 = MaxRescanGenerations)
        <3>1. maint' = [round EXCEPT !.ids = next, !.gen = @ + 1] BY <1>6, <2>6
        <3> QED BY <1>7, <2>3, <3>1
    <2> QED BY <2>4, <2>5, <2>6
<1>9. TypeOK' BY <1>1, <1>8, WorkTypeFrame DEF ProcTypeOK, EnvTypeOK, envVars
<1> QED BY <1>1, <1>8, <1>9, Frame, CallsFrame DEF envVars

(***************************************************************************)
(* The two steps that only change batches.                                 *)
(***************************************************************************)
LEMMA BatchStepKeeps ==
    ASSUME SchedulerInv, UNCHANGED <<jobVars, indexVars>>, batches' \in [Tenants -> Batch \cup {NoBatch}],
           NEW S, FlushBatches(S) \/ (NoFault /\ UNCHANGED disk),
           maint' \in TickType, maint'.due \subseteq maint.due,
           \A t \in maint'.due : batches'[t] = batches[t],
           UNCHANGED <<piped, cprov, sub, calls, wk, live, written, restarted, issued, blocklist>>
    PROVE  SchedulerInv'
<1> USE DEF SchedulerInv, TypeOK
<1>1. WorkTypeOK' BY DEF WorkTypeOK, jobVars, indexVars
<1>2. UNCHANGED <<status, detail, pending, redactionInFlight, runningByTenant>> BY DEF jobVars, indexVars
<1>3. pending' \cap Known(status') = {} /\ pending' \cup Known(status') \subseteq issued'
    BY <1>2 DEF JobInOnePlace
<1>4. /\ disk' \in DiskType /\ faults' \in Nat
      /\ disk'.pending \cap Known(disk'.status) = {}
      /\ disk'.pending \cup Known(disk'.status) \subseteq issued'
      /\ disk'.pending \subseteq pending' \cup disk.pending
    <2>1. CASE FlushBatches(S) BY <1>1, <1>3, <2>1, FlushBatchesKeeps
    <2>2. CASE NoFault /\ UNCHANGED disk BY <2>2 DEF NoFault, EnvTypeOK, JobInOnePlace
    <2> QED BY <2>1, <2>2
<1>5. TypeOK' BY <1>1, <1>4 DEF ProcTypeOK, EnvTypeOK
<1>6. CountsExact' BY <1>2, InFlightFrame, RunningFrame DEF CountsExact, kindOf, tenantOf
<1>7. JobInOnePlace' BY <1>2, <1>4, SubmittingFrame DEF JobInOnePlace, Known
<1>8. PendingAreRedactions' BY <1>2, <1>4 DEF PendingAreRedactions, kindOf
<1>9. DueArmed' /\ CallsAwaited' BY DueFrame, CallsFrame
<1> QED BY <1>5, <1>6, <1>7, <1>8, <1>9

LEMMA RescanCommitKeeps == ASSUME SchedulerInv, RescanCommit PROVE SchedulerInv'
<1> USE DEF SchedulerInv, TypeOK
<1> DEFINE t == maint.tenant
           set == IF batches[t] = NoBatch THEN NoBatch
                  ELSE [batches[t] EXCEPT !.skipped = maint.ids, !.rescan = maint.ids # {}]
           done == maint.ready = {} /\ maint.ids = {}
           left == maint.due \ {t}
           after == IF done THEN cleanupBatchIfDone(set, t) ELSE set
<1>1. maint \in TickType /\ t \in Tenants /\ maint.ids \in SUBSET JobIDs BY DEF ProcTypeOK, TickType
<1>2. set \in Batch \cup {NoBatch}
    <2>1. batches[t] \in Batch \cup {NoBatch} BY <1>1 DEF WorkTypeOK
    <2> QED BY <1>1, <2>1 DEF Batch
<1>3. SetBatch(t, after) BY DEF RescanCommit
<1>4. FlushBatches({}) \/ (NoFault /\ UNCHANGED disk) BY DEF RescanCommit
<1>5. maint' = IF maint.ready = {} THEN [IdleTick(AnyTenant) EXCEPT !.pc = "sweep", !.due = left]
               ELSE [maint EXCEPT !.pc = "enqueue", !.due = left]
    BY DEF RescanCommit
<1>6. UNCHANGED <<piped, cprov, sub, calls, wk, live, written, restarted, issued, blocklist>> BY DEF RescanCommit
<1> HIDE DEF set, done
<1>7. after \in Batch \cup {NoBatch} BY <1>1, <1>2, CleanupType
<1> HIDE DEF after
<1>8. /\ UNCHANGED <<jobVars, indexVars>> /\ batches' \in [Tenants -> Batch \cup {NoBatch}]
      /\ \A u \in Tenants \ {t} : batches'[u] = batches[u]
    BY <1>1, <1>3, <1>7 DEF SetBatch, WorkTypeOK
<1>9. left \in SUBSET Tenants BY <1>1 DEF TickType
<1>10. maint' \in TickType /\ maint'.due = left
    <2>1. IdleTick(AnyTenant) \in TickType BY IdleTypes
    <2> HIDE DEF left
    <2>2. CASE maint.ready = {} BY <1>5, <1>9, <2>1, <2>2 DEF TickType
    <2>3. CASE maint.ready # {} BY <1>1, <1>5, <1>9, <2>3 DEF TickType
    <2> QED BY <2>2, <2>3
<1>11. maint'.due \subseteq maint.due /\ \A u \in maint'.due : batches'[u] = batches[u]
    BY <1>8, <1>9, <1>10
<1> QED BY <1>4, <1>6, <1>8, <1>10, <1>11, BatchStepKeeps

LEMMA CleanupOrphanedBatchesKeeps == ASSUME SchedulerInv, CleanupOrphanedBatches PROVE SchedulerInv'
<1> USE DEF SchedulerInv, TypeOK
<1>1. \A t \in Tenants : advanceQuiescence(batches[t], t) \in Batch \cup {NoBatch}
    <2>1. SUFFICES ASSUME NEW t \in Tenants PROVE advanceQuiescence(batches[t], t) \in Batch \cup {NoBatch}
        OBVIOUS
    <2>2. batches[t] \in Batch \cup {NoBatch} BY DEF WorkTypeOK
    <2>3. CASE batches[t] = NoBatch BY <2>3 DEF advanceQuiescence
    <2>4. CASE batches[t] \in Batch
        <3>1. \A q \in Nat : [batches[t] EXCEPT !.quiesce = q] \in Batch BY <2>4 DEF Batch
        <3>2. batches[t].quiesce \in Nat BY <2>4 DEF Batch
        <3>3. [batches[t] EXCEPT !.quiesce = @ - 1] \in Batch \/ ~(batches[t].quiesce > 1)
            BY <2>4, <3>2 DEF Batch
        <3> QED BY <3>1, <3>3 DEF advanceQuiescence, QuiescenceSweeps
    <2> QED BY <2>2, <2>3, <2>4
<1>2. /\ batches' = [t \in Tenants |-> advanceQuiescence(batches[t], t)]
      /\ UNCHANGED <<jobVars, indexVars>>
      /\ FlushBatches({}) \/ (NoFault /\ UNCHANGED disk)
      /\ maint' = IdleTick(AnyTenant)
      /\ UNCHANGED <<piped, cprov, sub, calls, wk, live, written, restarted, issued, blocklist>>
    BY DEF CleanupOrphanedBatches
<1>3. batches' \in [Tenants -> Batch \cup {NoBatch}] BY <1>1, <1>2
<1>4. maint' \in TickType /\ maint'.due = {} BY <1>2, IdleTypes DEF IdleTick
<1> QED BY <1>2, <1>3, <1>4, BatchStepKeeps

(***************************************************************************)
(* The start, and a restart.  What is loaded is typed and in one place,    *)
(* and the indexes are counted afresh.                                     *)
(***************************************************************************)
LEMMA SnapshotType == ASSUME WorkTypeOK PROVE Snapshot \in DiskType
BY DEF WorkTypeOK, Snapshot, DiskType

LEMMA RestartKeeps == ASSUME SchedulerInv, NEW graceful \in BOOLEAN, Restart(graceful) PROVE SchedulerInv'
<1> USE DEF SchedulerInv, TypeOK
<1> DEFINE d == IF graceful THEN Snapshot ELSE disk
<1>1. /\ d \in DiskType
      /\ d.pending \cap Known(d.status) = {} /\ d.pending \cup Known(d.status) \subseteq issued
      /\ \A j \in d.pending : kindOf(j) = "redaction"
    <2>1. CASE graceful
        <3>1. d = Snapshot BY <2>1
        <3>2. d.pending = pending /\ d.status = status BY <3>1 DEF Snapshot
        <3> QED BY <3>1, <3>2, SnapshotType DEF JobInOnePlace, PendingAreRedactions
    <2>2. CASE ~graceful BY <2>2 DEF JobInOnePlace, PendingAreRedactions
    <2> QED BY <2>1, <2>2
<1>2. /\ disk' = d /\ status' = d.status /\ workerOf' = d.workerOf /\ output' = d.output
      /\ pending' = d.pending /\ batches' = d.batches
      /\ UNCHANGED detail /\ RebuildIndexes(d.status, d.workerOf, d.pending)
      /\ piped' = {} /\ calls' = {} /\ cprov' = IdleProvider(AnyTenant)
      /\ sub' = [c \in Clients |-> IdleClient(AnyTenant)]
      /\ maint' = IdleTick(AnyTenant)
      /\ wk' = [w \in Workers |-> IF wk[w].pc = "wait" THEN [wk[w] EXCEPT !.pc = "report"] ELSE wk[w]]
      /\ blocklist' \subseteq live /\ restarted' = TRUE /\ UNCHANGED <<live, written, issued>>
    BY DEF Restart, LoadFromLocal, replayWorkOnBlocklist
<1>3. faults' \in Nat BY DEF Restart, Fault, EnvTypeOK
<1> HIDE DEF d
<1>4. WorkTypeOK' /\ RunningExact'
    BY <1>1, <1>2, RebuildKeeps DEF DiskType
<1>5. EnvTypeOK'
    <2>1. ASSUME NEW w \in Workers PROVE wk'[w] \in WorkerType /\ (wk'[w].pc # "idle" => wk'[w].job \in JobIDs)
        <3>1. wk[w] \in WorkerType /\ (wk[w].pc # "idle" => wk[w].job \in JobIDs) BY DEF EnvTypeOK
        <3>2. CASE wk[w].pc = "wait"
            <4>1. wk'[w] = [wk[w] EXCEPT !.pc = "report"] BY <1>2, <3>2
            <4> QED BY <3>1, <3>2, <4>1 DEF WorkerType
        <3>3. CASE wk[w].pc # "wait" BY <1>2, <3>1, <3>3
        <3> QED BY <3>2, <3>3
    <2>2. wk' \in [Workers -> WorkerType] BY <1>2, <2>1
    <2> QED BY <1>2, <1>3, <2>1, <2>2 DEF EnvTypeOK
<1>6. ProcTypeOK' BY <1>2, IdleTypes DEF ProcTypeOK
<1>7. TypeOK' BY <1>1, <1>2, <1>4, <1>5, <1>6 DEF EnvTypeOK
<1>8. InFlightExact'
    <2>1. \A t \in Tenants : redactionInFlight'[t] = 0 BY <1>2 DEF RebuildIndexes
    <2>2. \A t : JobsOf(piped, t, "redaction")' = {} BY <1>2 DEF JobsOf
    <2>3. Cardinality({}) = 0 BY FS_EmptySet
    <2> QED BY <2>1, <2>2, <2>3 DEF InFlightExact
<1>9. JobInOnePlace'
    <2>1. \A c \in Clients : Submitting(c)' = {}
        <3>1. \A c \in Clients : sub'[c].jobs = NoJobs BY <1>2 DEF IdleClient
        <3>2. DOMAIN NoJobs = {} BY DEF NoJobs
        <3> QED BY <3>1, <3>2 DEF Submitting
    <2> QED BY <1>1, <1>2, <2>1 DEF JobInOnePlace
<1>10. PendingAreRedactions' BY <1>1, <1>2 DEF PendingAreRedactions, kindOf
<1>11. DueArmed' BY <1>2 DEF DueArmed, IdleTick
<1>12. CallsAwaited' BY <1>2 DEF CallsAwaited
<1> QED BY <1>4, <1>7, <1>8, <1>9, <1>10, <1>11, <1>12 DEF CountsExact

LEMMA InitKeeps == ASSUME Init PROVE SchedulerInv
<1>1. WorkTypeOK
    <2>1. [kind |-> "compaction", tenant |-> AnyTenant, blocks |-> {}, dryRun |-> FALSE] \in Detail
        BY AnyTenantType DEF Detail, Kinds
    <2>2. detail \in [JobIDs -> Detail] BY <2>1 DEF Init
    <2> QED BY <2>2 DEF Init, WorkTypeOK, Statuses
<1>2. ProcTypeOK BY IdleTypes DEF Init, ProcTypeOK
<1>3. EnvTypeOK BY IdleTypes DEF Init, EnvTypeOK, IdleWorker
<1>4. TypeOK BY <1>1, <1>2, <1>3, SnapshotType DEF Init, TypeOK
<1>5. Cardinality({}) = 0 BY FS_EmptySet
<1>6. InFlightExact
    <2>1. \A t : JobsOf(piped, t, "redaction") = {} BY DEF Init, JobsOf
    <2> QED BY <1>5, <2>1 DEF InFlightExact, Init
<1>7. RunningExact
    <2>1. \A t, k : ActiveJobs(t, k) = {} BY DEF Init, ActiveJobs, JobsOf, IsActive
    <2> QED BY <1>5, <2>1 DEF RunningExact, Init
<1>8. JobInOnePlace
    <2>1. \A c \in Clients : Submitting(c) = {}
        <3>1. \A c \in Clients : sub[c].jobs = NoJobs BY DEF Init, IdleClient
        <3>2. DOMAIN NoJobs = {} BY DEF NoJobs
        <3> QED BY <3>1, <3>2 DEF Submitting
    <2>2. Known(status) = {} BY DEF Init, Known
    <2>3. disk.pending = pending /\ disk.status = status /\ pending = {} /\ piped = {}
        BY DEF Init, Snapshot
    <2> QED BY <2>1, <2>2, <2>3 DEF JobInOnePlace
<1>9. PendingAreRedactions BY DEF Init, Snapshot, PendingAreRedactions
<1>10. DueArmed /\ CallsAwaited BY DEF Init, DueArmed, CallsAwaited, IdleTick
<1> QED BY <1>4, <1>6, <1>7, <1>8, <1>9, <1>10 DEF SchedulerInv, CountsExact

LEMMA StutterKeeps == ASSUME SchedulerInv, UNCHANGED vars PROVE SchedulerInv'
<1> USE DEF SchedulerInv, TypeOK, vars, procVars, envVars
<1>1. TypeOK' BY WorkTypeFrame DEF ProcTypeOK, EnvTypeOK
<1> QED BY <1>1, Frame, CallsFrame

(***************************************************************************)
(* SchedulerInv is inductive: one step per action of Next.                 *)
(***************************************************************************)
LEMMA SchedulerStep == SchedulerInv /\ [Next]_vars => SchedulerInv'
<1> SUFFICES ASSUME SchedulerInv, [Next]_vars PROVE SchedulerInv' OBVIOUS
<1>1. CASE ProviderStep
    BY <1>1, SelectorKeeps, RegisterCompactionKeeps, EmitRetentionKeeps, DrainPendingKeeps DEF ProviderStep
<1>2. ASSUME NEW w \in Workers, NextCall(w) PROVE SchedulerInv'
    BY <1>2, NextRedeliverKeeps, NextDropKeeps, NextAssignKeeps DEF NextCall
<1>3. ASSUME NEW w \in Workers, Execute(w) PROVE SchedulerInv' BY <1>3, ExecuteKeeps
<1>4. ASSUME NEW w \in Workers, SendReport(w) \/ LoseReply(w) \/ WorkerCrash(w) PROVE SchedulerInv'
    BY <1>4, WorkerCallKeeps
<1>5. ASSUME NEW c \in calls, UpdateJob(c) PROVE SchedulerInv'
    BY <1>5, UpdateJobEndKeeps, UpdateJobRecordKeeps, UpdateJobApplyKeeps DEF UpdateJob
<1>6. ASSUME NEW c \in Clients, SubmitRedaction(c) PROVE SchedulerInv'
    BY <1>6, SubmitSnapshotKeeps, SubmitAddBatchKeeps, SubmitEnqueueKeeps DEF SubmitRedaction
<1>7. CASE MaintenanceStep
    BY <1>7, MaintenanceTickKeeps, RescanBeginKeeps, RescanRoundKeeps, RescanCommitKeeps, RescanEnqueueKeeps,
       CleanupOrphanedBatchesKeeps DEF MaintenanceStep
<1>8. CASE Poll BY <1>8, PollKeeps
<1>9. ASSUME NEW graceful \in BOOLEAN, Restart(graceful) PROVE SchedulerInv' BY <1>9, RestartKeeps
<1>10. CASE UNCHANGED vars BY <1>10, StutterKeeps
<1> QED BY <1>1, <1>2, <1>3, <1>4, <1>5, <1>6, <1>7, <1>8, <1>9, <1>10 DEF Next

LEMMA SchedulerInvariant == Spec => []SchedulerInv
<1>1. Init => SchedulerInv BY InitKeeps
<1> QED BY <1>1, SchedulerStep, PTL DEF Spec

\* Every variable keeps its type: no handler puts a job, a batch or a call in
\* a state the others do not expect.
THEOREM SchedulerTypeOK == Spec => []TypeOK
<1>1. SchedulerInv => TypeOK BY DEF SchedulerInv
<1> QED BY <1>1, SchedulerInvariant, PTL

\* The two counters HasJobsForTenant reads equal, at every moment, the numbers
\* of dequeued redaction jobs and of jobs a worker holds: whatever calls are
\* lost, late or repeated, whichever flushes fail, and over every restart.
THEOREM SchedulerCountsExact == Spec => []CountsExact
<1>1. SchedulerInv => CountsExact BY DEF SchedulerInv
<1> QED BY <1>1, SchedulerInvariant, PTL

\* A job is with a submission, pending, in the pipeline or in a Jobs map, and
\* never in two of them, in memory and in the files: NextPendingJob, AddJob and
\* the shard flushes together never run a redaction job twice.
THEOREM SchedulerJobInOnePlace == Spec => []JobInOnePlace
<1>1. SchedulerInv => JobInOnePlace BY DEF SchedulerInv
<1> QED BY <1>1, SchedulerInvariant, PTL
=============================================================================
