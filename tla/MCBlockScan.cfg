\* The real time scanner from the second block, alone or with the history.
SPECIFICATION FairSpec
CONSTANTS
  Txs <- MCTxs
  Blocks <- MCBlocks
  FirstTop = 2
  Handlers <- MCHandlers
  MaxHandlers = 2
  Width = 8
  GENESIS = "genesis"
  Settings <- MCSettings
INVARIANTS
  HandlersReady
  HandledOnce
  BooksBalance
PROPERTIES
  EveryTxHandled
CHECK_DEADLOCK FALSE
