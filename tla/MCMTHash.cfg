\* Two threads while the history is scanned; one across its end.
SPECIFICATION FairSpec
CONSTANTS
  NULL = NULL  EMPTY = EMPTY  ERROR = ERROR
  a = a  b = b  d = d  t1 = t1  t2 = t2
  Keys <- MCKeys  HashOf <- MCHashOf
  ResizeFactor = 3  StartSize = 3
  Clients <- MCClients  Server = server
  Loads <- MCLoads
INVARIANTS
  
  
  AnswersRight
PROPERTIES
  EveryCallReturns
