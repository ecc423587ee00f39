CONSTANTS Blocks <- MCBlocks
          MaxRecords = 2
          MaxLiveTraces = 1
          MaxBlock = 2
          WalLimit = 0
          MaxFaults = 1
SPECIFICATION Spec
PROPERTIES RestartRebuilds
CHECK_DEADLOCK FALSE
