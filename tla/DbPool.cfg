SPECIFICATION FairSpec
CONSTANTS
  Users = {u1, u2, u3, u4}
  Conns = {c1, c2}
  PoolSize = 2
  None = None
INVARIANTS TypeOK Conservation NoLostWakeup
PROPERTIES LeaseSpec WaitersServed Returned
