SPECIFICATION Spec
CONSTANTS
  Clients = {b1, b2}
  Users = {u1, u2}
  Sessions = {s1, s2, s3}
  Threads = {t1, t2}
  MaxRequests = 4
  None = None
SYMMETRY Symmetry
INVARIANT OneLoginPerAccount
CHECK_DEADLOCK FALSE
