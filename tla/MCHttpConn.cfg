SPECIFICATION FairSpec
CONSTANTS
  Messages <- All
  Statuses = {200, 401}
  MaxMessages = 3
  maxBodyBytes = 2
INVARIANTS TypeOK AnswersMatch NeverSpins
PROPERTIES  EveryMessageAnswered ParseEnds
CHECK_DEADLOCK FALSE
