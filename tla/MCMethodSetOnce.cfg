SPECIFICATION Spec
CONSTANTS
  Messages <- All
  Statuses = {200, 401}
  MaxMessages = 2
  maxBodyBytes = 2
INVARIANTS MethodSetOnce
CHECK_DEADLOCK FALSE
