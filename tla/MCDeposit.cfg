\* Failing calls, repeated messages, lost answers, change and a restart, with
\* and without the coin's daemon.
SPECIFICATION FairSpec
CONSTANTS
  Accounts = {"alice", "bob"}
  Mine = {"alice"}
  Gateway = "gateway"
  Outputs <- MCOutputs
  MinConf = 1
  FirstBlock = 2
  StartHeight = 5
  MaxHeight = 7
  Settings <- MCSettings
INVARIANTS
  
  
  AnnouncedOnce
  TransferBacked
PROPERTIES
  EveryDepositTransferred
CHECK_DEADLOCK FALSE
