SPECIFICATION FairSpec
CONSTANTS
  RecvWin = 2
  SendWin = 1
  MaxFrame = 2
  Ids = {1, 2}
  MaxStreams = 1
  DataSizes = {1}
  MaxSent = 2
  MaxWrites = 1
INVARIANTS
  AccountsBalance
  UploadOutlivesResponse
CHECK_DEADLOCK FALSE
PROPERTIES
  FinishedStreamGoes
