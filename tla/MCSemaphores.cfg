SPECIFICATION FairDisciplinedSpec
CONSTANTS
  MaxPid = 3
  MAX_PRIORITY = 2
  PriorityArgs = {}
  NULL = NULL
  Sems = {s1}
  InitialValues = {0, 1}
  MAX_BLOCKED_PROCESSES = 2
  MaxValue = 2
  None = None
INVARIANTS
  SemTypeOK
  BlockedFits
  NoTokenWhileWaiting
  WaitersExact
PROPERTIES
  ImplementsCounting
  GrantedReturns
