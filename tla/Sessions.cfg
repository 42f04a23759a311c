SPECIFICATION Spec
CONSTANTS
  c1 = c1
  a1 = a1
  Sessions = {c1, c2}
  IPs <- MCIPs
  NoIP = noip
  Doors <- MCDoors
  Limits <- MCLimits
  ReqActions <- MCReqActions
  RespActions <- MCRespActions
  ReqSizes = {"over"}
  RespSizes = {"over"}
  MaxInner = 1
INVARIANTS GateExact 
 
CHECK_DEADLOCK FALSE
