CONSTANTS
    Tenants = {t1}
    Workers = {w1}
    Blocks = {b1, b2, b3}
    JobIDs = {j1, j2}
    Shards = {j1, j2}
    ShardOf <- MCShardPerJob
    NoJob = NoJob
    NoWorker = NoWorker
    NoBatch = NoBatch
    BlockTenant <- MCOneTenant
    FirstBlocks = {b1, b2}
    Clients = {c1}
    Modes = {TRUE, FALSE}
    Providers = {"compaction"}
    MaxRescanGenerations = 2
    MinInputBlocks = 2
    PipeSize = 1
    JobReserve = 1
    FaultKinds = {"crash", "backend"}
    MaxFaults = 1
SPECIFICATION FairSpec
INVARIANTS WorkersJobIsKnown
PROPERTIES BatchEnds
