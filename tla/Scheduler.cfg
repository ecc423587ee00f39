CONSTANTS
    Tenants = {t1}
    Workers = {w1, w2}
    Blocks = {b1, b2, b3}
    JobIDs = {j1, j2, j3}
    Shards = {j1, j2, j3}
    ShardOf <- MCShardPerJob
    NoJob = NoJob
    NoWorker = NoWorker
    NoBatch = NoBatch
    BlockTenant <- MCOneTenant
    FirstBlocks = {b1, b2}
    Clients = {c1}
    Modes = {FALSE}
    Providers = {"compaction"}
    MaxRescanGenerations = 2
    MinInputBlocks = 2
    PipeSize = 1
    JobReserve = 1
    FaultKinds = {}
    MaxFaults = 0
SPECIFICATION Spec
SYMMETRY SafetySymmetry
INVARIANTS RedactionJobsHaveBatch CompactionsDisjoint
