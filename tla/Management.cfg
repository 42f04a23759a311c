SPECIFICATION Spec
CONSTANTS
  None = None
  Requests = {r1, r2}
  Identities <- MCIdentities
  First <- MCFirst
  MaxConcurrent = 2
  Rate = 1
  Burst = 1
  IdleFor = 1
  Idle = 1
  Absolute = 2
  MaxSessions = 1
  MaxCookie = 2
  MaxChange = 2
  MaxPassed = 3
  MaxTime = 2
SYMMETRY Symmetry
INVARIANTS SessionsAreCurrent  
CHECK_DEADLOCK FALSE
