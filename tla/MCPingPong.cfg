\* Withdrawals and an address request, one of each on its way at a time.
SPECIFICATION FairSpec
CONSTANTS
  NULL = NULL
  x3 = x3
  Items = {x1, x2, x3}
  Threads = {coinloop}
  Stages <- MCStages
  Dest <- MCDest
  Error <- MCError
  Entry <- MCEntry
  MaxInFlight = 1

  
PROPERTIES
  PassEnds
  EveryItemEnds
