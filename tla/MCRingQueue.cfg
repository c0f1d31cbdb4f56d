\* Callers let up to four items wait: what holds of the ring whatever waits,
\* and what holds while one item waits at a time.
SPECIFICATION FairSpec
CONSTANTS
  NULL = NULL
  Values = {v1, v2, v3, v4, v5}
  MaxOutstanding = 4
INVARIANTS
  TypeOK
  AtMostOnce
  CapacityIsHighWater
PROPERTIES
  
  EveryItemDelivered
