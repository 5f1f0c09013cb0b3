SPECIFICATION Spec
CONSTANTS
  TTY_WIDTH = 3
  TTY_HEIGHT = 2
  BUF = 4
  MAX_FIELD = 3
  Messages <- MCMessages
INVARIANTS
  StringEnds
  ThemeRestored
  OnScreen
CHECK_DEADLOCK FALSE
