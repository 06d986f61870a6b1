SPECIFICATION JobSpec
CONSTANTS
  MaxPid = 3
  MAX_PRIORITY = 2
  PriorityArgs <- MCPriorityArgs
  NULL = NULL
INVARIANTS
  TypeOK
  NoProcessLost
  ReadySizeExact
  DispatchFindsReady
  OneReasonToSleep
PROPERTIES
  ImplementsScheduler
  NoOvertaking
  ReadyGetsCPU
