SPECIFICATION Spec
CONSTANTS
  INITIAL_PHILOS = 2
  MAX_PHILOS = 3
  MaxTokens = 2
INVARIANTS
  NotAllAsleep
  AsleepIsHungry

CHECK_DEADLOCK FALSE
CONSTRAINT
  MishapBound
