CONSTANTS Requests = {r1, r2, r3}
          r2 = r2
          u1 = u1
          u2 = u2
          Users = {u1, u2}
          Streams = {s1}
          NoUser = NoUser
          UserOf <- MCUserOf
          Weight <- MCWeight
          MaxOutstanding = 2
          MaxBatchSize = 2
          MaxRetries = 2
          MaxFaults = 1
SPECIFICATION FairSpec
INVARIANTS TypeOK SpotsAgree InOnePlace Accounted NoLostWakeup
PROPERTIES EveryJobAnswered
CHECK_DEADLOCK FALSE
