\* Three threads ask two coin daemons and the NXT server.
SPECIFICATION FairSpec
CONSTANTS
  Coins <- MCCoins
  NXTAPI = "NXT"
  Main = "main"
  Threads = {"coinloop", "scanner"}
  NumRetries = 2
  Pieces = 2
  MaxCalls = 1
  Settings <- MCSettings
INVARIANTS
  AnswersTrue
PROPERTIES
  EveryCallReturns
CHECK_DEADLOCK FALSE
