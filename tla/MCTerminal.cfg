SPECIFICATION TerminalSpec
CONSTANTS
  Width = 7
  Height = 4
  LINE_LEN = 3
  Opening = 1
  Names = {1, 2}
  Closing = 1
  MaxLines = 1
  MaxUnder = 1
  Capacity = 2
  None = None
CONSTRAINT LineBound
INVARIANTS
  CursorsOnScreen
  CursorMatchesLine
PROPERTIES
  PromptSurvivesSwitch
