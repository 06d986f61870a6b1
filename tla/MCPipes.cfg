SPECIFICATION Spec
CONSTANTS
  Procs = {p1, p2, p3, p4}
  PipeIds <- MCPipeIds
  MAX_PIPES = 1
  PIPE_BUFFER_SIZE = 2
  a = a
  b = b
  Chars = {a, b}
  Strings <- MCStrings
  MaxTotal = 2
  Nothing = Nothing
INVARIANTS
  RingExact
  NoDeadlock
  SleepersListed
PROPERTIES
  ImplementsChannel
CHECK_DEADLOCK FALSE
