CONSTANTS
    Tenants = {t1}
    Workers = {w1, w2}
    Blocks = {b1, b2}
    JobIDs = {j1, j2}
    Shards = {j1, j2}
    ShardOf <- MCShardPerJob
    NoJob = NoJob
    NoWorker = NoWorker
    NoBatch = NoBatch
    BlockTenant <- MCOneTenant
    FirstBlocks = {b1}
    Clients = {c1}
    Modes = {FALSE}
    Providers = {"retention"}
    MaxRescanGenerations = 2
    MinInputBlocks = 2
    PipeSize = 1
    JobReserve = 1
    FaultKinds = {"crash", "shutdown", "flush", "reply", "worker", "deadJob"}
    MaxFaults = 3
SPECIFICATION Spec
SYMMETRY SafetySymmetry
INVARIANTS TypeOK CountsExact JobInOnePlace
