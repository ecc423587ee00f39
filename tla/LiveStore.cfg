CONSTANTS Blocks <- MCBlocks
          MaxRecords = 2
          MaxLiveTraces = 1
          MaxBlock = 2
          WalLimit = 0
          MaxFaults = 1
SPECIFICATION FairSpec
INVARIANTS TypeOK KeptUntilOld Served FlushedBeforeGone DrainedAtStop
PROPERTIES Delivered EveryRecordConsumed
CHECK_DEADLOCK FALSE
