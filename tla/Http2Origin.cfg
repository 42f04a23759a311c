SPECIFICATION FairSpec
CONSTANTS
  RecvWin = 1
  SendWin = 1
  MaxFrame = 1
  Ids = {1}
  PushIds = {2}
  DataSizes = {1, 2}
  Pads = {0, 1}
  Windows = {0}
  CapturePush = TRUE
  MaxBody = 1
  MaxUpload = 1
  MaxSent = 2
INVARIANTS
  WindowBounds
  NothingLeftBehind
  FailureHasCause
PROPERTIES
  UploadEnds
CHECK_DEADLOCK FALSE
