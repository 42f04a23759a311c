SPECIFICATION HopSpec
CONSTANTS
  Clients = {c1}
  CapSet <- MCOneCap
  Hdrs = {1}
  Bodies = {1}
  None = None
  MaxId = 1
  MaxEpoch = 1
  MaxGen = 0
  MaxTime = 1
  PauseCalls = FALSE
INVARIANT EveryVerdictHonored
