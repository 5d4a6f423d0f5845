SPECIFICATION FairSpec
CONSTANTS
  Messages = {m1, m2, m3}
  Workers = {w1, w2}
  None = None
  MaxFaults = 2
INVARIANTS QueueTypeOK NoLoss DuplicatesAreRedelivered
PROPERTY EventuallyStored
CHECK_DEADLOCK FALSE
