CONSTANTS
  Logs = {e1, e2}
  MaxFailures = 3
SPECIFICATION FairPipelineSpec
CHECK_DEADLOCK FALSE
INVARIANTS
  NoConfirmedLogLost
  CopiesBound
PROPERTIES
  LogReturns
  QueuedIsTried
