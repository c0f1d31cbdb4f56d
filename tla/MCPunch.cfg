\* Two programs that start, leave, start again and ask, and what can fail.
SPECIFICATION FairSpec
CONSTANTS
  p1 = p1  p2 = p2  alice = alice  bob = bob  NONE = NONE
  Programs <- TwoPrograms  Socks <- Socks3  Settings <- MCSettings
INVARIANTS
  GroupsSound
  ViewsFollow
  ClientsDistinct
PROPERTIES
  ViewsSettle
CHECK_DEADLOCK FALSE
