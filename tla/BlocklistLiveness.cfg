CONSTANTS Blocks = {b1, b2}
          Workers = {w1}
          Scheduler = s
          NoBlock = NoBlock
          MaxFaults = 0
SPECIFICATION FairSpec
PROPERTIES Converges
CHECK_DEADLOCK FALSE
