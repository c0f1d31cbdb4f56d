\* One Coinloop follows the outputs of two multisig addresses.
SPECIFICATION FairSpec
CONSTANTS
  Txs <- MCTxs
  Msigs <- MCMsigs
  NoAddress = "none"
  MinConf = 2
  Settings <- MCSettings
INVARIANTS
  FundsSound
PROPERTIES
  
  FundsCatchUp
CHECK_DEADLOCK FALSE
