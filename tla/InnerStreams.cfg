SPECIFICATION Spec
CONSTANTS
  Streams = {s1, s2}
  s1 = s1
  ReqActions <- MCReqActions
  RespActions <- MCRespActions
  MaxChunks = 2
  QueueCap = 1
INVARIANTS OriginIsReserved 
PROPERTY EveryStreamEnds
CHECK_DEADLOCK FALSE
