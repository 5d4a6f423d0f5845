CONSTANTS
  MaxRequests = 3
  Window = 2
  ResponseLen = 2
  MaxRenegs = 2
  MaxFaults = 1
  kMaxSpins = 3
SPECIFICATION FairSpec
INVARIANTS TlsTypeOK ResponsesInOrder RequestsInOrder NothingLeftUnread
PROPERTIES PendingLeaves
CHECK_DEADLOCK FALSE
