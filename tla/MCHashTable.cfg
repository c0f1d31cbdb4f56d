\* Sizes 3 -> 9 -> 27: two growths, clusters that wrap around the end.
SPECIFICATION Spec
CONSTANTS
  a = a
  b = b
  c = c
  d = d
  e = e
  f = f
  g = g
  long = long
  Keys <- MCKeys
  BadKeys <- MCBadKeys
  HashOf <- MCHashOf
  Fallback <- MCFallback
  ResizeFactor = 3
  StartSize = 3
  EMPTY = EMPTY
  ERROR = ERROR
INVARIANTS
  TableSound
PROPERTIES
  RefinesKeySet
