SPECIFICATION ChatSpec
CONSTANTS
  Messages <- ChatMessages
  Workers = {w1, w2}
  None = None
  MaxFaults = 1
  Threads = {t1}
  MaxCalls = 2
  MaxClock = 3
  MaxErrors = 0
SYMMETRY WorkerSymmetry
INVARIANT SequentialDialogue
 
CHECK_DEADLOCK FALSE
