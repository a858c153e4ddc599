SPECIFICATION PlanSpec
CONSTANTS
  MaxQueue = 3
  MaxCalls = 3
  HasTimeout = TRUE
INVARIANTS PlanTypeOK NoLostWaiter PausedMeansStopped
PROPERTIES NoTickOnceOver SettledRunReturns TerminalIsReported
CHECK_DEADLOCK FALSE
