CONSTANTS
  MaxRequests = 2
  Window = 2
  ResponseLen = 2
  MaxRenegs = 1
  MaxFaults = 0
  kMaxSpins = 3
SPECIFICATION FairSpec
PROPERTIES ArrivedIsDecrypted
CHECK_DEADLOCK FALSE
