SPECIFICATION Spec
CONSTANTS
  Clients = {b1, b2}
  Users = {u1, u2}
  Sessions = {s1, s2, s3}
  Threads = {t1, t2}
  MaxRequests = 5
  None = None
SYMMETRY Symmetry
INVARIANTS LoginTypeOK ActsAsProved OneIdentity LogoutIsFinal
CHECK_DEADLOCK FALSE
