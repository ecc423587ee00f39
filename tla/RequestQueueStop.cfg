CONSTANTS Requests = {r1, r2, r3}
          r2 = r2
          u1 = u1
          u2 = u2
          Users = {u1, u2}
          Streams = {s1}
          NoUser = NoUser
          UserOf <- MCUserOf
          Weight <- MCWeight
          MaxOutstanding = 2
          MaxBatchSize = 2
          MaxRetries = 2
          MaxFaults = 0
SPECIFICATION FairSpec
PROPERTIES StopCompletes
CHECK_DEADLOCK FALSE
