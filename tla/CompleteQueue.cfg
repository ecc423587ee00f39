SPECIFICATION FairSpec
CONSTANTS
    o1 = o1  o2 = o2  o3 = o3  k1 = k1  k2 = k2
    Ops = {o1, o2, o3}
    Keys = {k1, k2}
    KeyOf <- MCKeyOf
    Loops = {l1, l2}
    MaxFlushAttempts = 2
    NoOp = NoOp
    Exited = Exited
INVARIANTS TypeOK Exclusive NothingStranded
PROPERTIES LeaseSpec EveryOpSettles ShutdownCompletes
CHECK_DEADLOCK FALSE
