SPECIFICATION Spec
CONSTANTS
  None = None
  w1 = w1
  r1 = r1
  Writers = {w1}
  Readers = {r1}
  Kinds <- SmallOrPaused
  Wanted = {2, 3}
  MaxFlows = 2
  Limit = 1
  RingCap = 1
  MaxId = 3
  MaxEpoch = 2
  MaxSubs = 1
INVARIANTS
  FilesAreOwned
  WalkIsExact
  NoSleepOnMatch
  NoSendOnClosed
CHECK_DEADLOCK FALSE
