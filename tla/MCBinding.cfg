\* Three gateways make addresses for two accounts and two nodes bind them.
SPECIFICATION FairSpec
CONSTANTS
  NumGateways = 3
  Accts = {"ann", "bob"}
  MaxHandlers = 3
  Nodes = {1, 4}
  Settings <- MCSettings
INVARIANTS
  MsigsSound
  
PROPERTIES
  EveryAttemptEnds
  EveryNodeBinds
CHECK_DEADLOCK FALSE
