SPECIFICATION FairPipelineSpec
CONSTANTS
  shell = shell
  reader = reader
  writer = writer
  Procs = {shell, reader, writer}
  PipeIds <- MCPipeIds
  MAX_PIPES = 1
  PIPE_BUFFER_SIZE = 2
  a = a
  EOF = EOF
  Chars = {a, EOF}
  Strings <- MCStrings
  MaxTotal = 1
  MaxWrites = 4
  Nothing = Nothing
PROPERTIES
  ReaderEnds
CHECK_DEADLOCK FALSE
