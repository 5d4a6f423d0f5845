SPECIFICATION Spec
CONSTANTS
  Param = Param
  Error = Error
  Threads = {t1, t2}
  Servers <- Programs
  AllowedOrigins = {"*"}
  AllowCredentials = FALSE
  Accounts0 <- OldAccounts
  Iterations = 310000
  MinIterations = 100000
  UniqueNames = TRUE
  MaxDbErrors = 1
  ChatUsers = {"ann", "bob"}
  GeneratedIds <- Ids
  MaxLoops = 3
  MaxRestarts = 1
INVARIANTS AppTypeOK  OwnOrigin OwnerCanLogin AnsweredAccountIsOwn OneHelper CreatedIsListed DirectoryConsistent ImageAsSent
SYMMETRY Symmetry
CHECK_DEADLOCK FALSE
