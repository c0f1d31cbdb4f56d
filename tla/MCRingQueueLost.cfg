\* Two items may wait at the same time: the ring loses or reorders items.
SPECIFICATION Spec
CONSTANTS
  NULL = NULL
  Values = {v1, v2, v3}
  MaxOutstanding = 2
INVARIANTS
  NothingLost
