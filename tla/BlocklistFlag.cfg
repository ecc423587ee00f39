CONSTANTS Blocks = {b1, b2}
          Workers = {w1}
          Scheduler = s
          NoBlock = NoBlock
          MaxFaults = 1
SPECIFICATION Spec
INVARIANTS FlagRespected
CHECK_DEADLOCK FALSE
