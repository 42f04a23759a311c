SPECIFICATION Spec
CONSTANTS
  Clients = {c1, c2}
  CapSet <- MCCapSet
  Hdrs = {1}
  Bodies = {1, 3}
  None = None
  MaxId = 2
  MaxEpoch = 2
  MaxGen = 2
  MaxTime = 2
  PauseCalls = TRUE
INVARIANTS
  OrderIsIndex
  OccupancyWithinCaps
  EpochFence
  NoLostWaiter
PROPERTIES
  RefusedInsertIsPure
  GenerationCoversChange
SYMMETRY ClientSymmetry
VIEW WithoutHistory
CHECK_DEADLOCK FALSE
