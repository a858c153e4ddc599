SPECIFICATION PlanSpec
CONSTANTS
  MaxQueue = 3
  MaxCalls = 3
  HasTimeout = FALSE
PROPERTY CancelledRunReturns
CHECK_DEADLOCK FALSE
