\* Two nodes, four calls, one fault and one restart.
SPECIFICATION FairSpec
CONSTANTS
  NULL = NULL
  Nodes = {s, b}  Seller = s
  Prompt = TRUE  Quiet = TRUE  EarlyAccept = FALSE
  MaxCalls = 4  MaxFaults = 1  MaxRestarts = 1
INVARIANTS
  TypeOK
  NodesAgree
PROPERTIES
  NeverReopened
  AgreementReached
CHECK_DEADLOCK FALSE
