SPECIFICATION FeedsSpec
CONSTANTS
  HistoryLimit = 2
  RunLimit = 2
  BucketLimit = 2
  PageLimit = 1
  ReplayLimit = 1
  MaxEvents = 4
  MaxClients = 1
  Wanted <- MCWanted
INVARIANTS
  FeedsTypeOK
  ErrorsOutliveInfo
PROPERTIES
  LosslessPaging
  ReplayIsComplete
  StreamIsWoken
CHECK_DEADLOCK FALSE
