SPECIFICATION HopSpec
CONSTANTS
  Clients = {c1, c2}
  CapSet <- MCEvictCap
  Hdrs = {1}
  Bodies = {1}
  None = None
  MaxId = 2
  MaxEpoch = 2
  MaxGen = 0
  MaxTime = 2
  PauseCalls = FALSE
INVARIANTS
  HopAgreesWithRow
PROPERTIES
  CellSpec
  HopTerminates
