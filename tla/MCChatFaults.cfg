SPECIFICATION ChatSpec
CONSTANTS
  Messages <- ChatMessages
  Workers = {w1}
  None = None
  MaxFaults = 1
  Threads = {t1, t2}
  MaxCalls = 2
  MaxClock = 0
  MaxErrors = 1
INVARIANTS ChatTypeOK OnlyDialogueStored
CHECK_DEADLOCK FALSE
