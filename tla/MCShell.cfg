SPECIFICATION ShellSpec
CONSTANTS
  IntBits = 8
  C1_WIDTH = 2
  C2_WIDTH = 3
  MAX_ARGUMENTS = 3
  USER_SIZE = 2
  MaxLine = 7
  KeyCodes <- MCKeyCodes
  CommandNames <- MCCommandNames
CHECK_DEADLOCK FALSE
INVARIANTS
  ArgsAreWords
  NumbersRoundTrip
  RunsWhatWasTyped
  TableComplete
