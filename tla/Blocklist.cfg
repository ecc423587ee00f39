CONSTANTS Blocks = {b1, b2}
          Workers = {w1}
          Scheduler = s
          NoBlock = NoBlock
          MaxFaults = 1
SPECIFICATION Spec
SYMMETRY BlockSymmetry
INVARIANTS TypeOK NoRevival
PROPERTIES NothingHidden
CHECK_DEADLOCK FALSE
