CONSTANTS
    Tenants = {t1, t2}
    Parts = {p1}
    MaxRecords = 2
    MaxSeq = 4
    MaxFaults = 3
SPECIFICATION FairSpec
INVARIANTS TypeOK Durable ReleasedOnce
PROPERTIES ReleaseSpec EveryRecordCommitted
CHECK_DEADLOCK FALSE
