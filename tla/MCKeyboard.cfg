SPECIFICATION Spec
CONSTANTS
  Readers = {p1, p2}
  Letters = {x}
  Backspace = Backspace
  Tab = Tab
  EOF = EOF
  BUFF_LEN = 3
  MaxTokens = 5
INVARIANTS
  TokenForEveryKey
PROPERTIES
  ImplementsKeyQueue
