CONSTANTS
  VGA_WIDTH = 8
  VGA_HEIGHT = 2
  Texts <- MCTexts
  Numbers <- MCNumbers
  FifoSize = 2
  MaxCalls = 3
SPECIFICATION ConsoleSpec
INVARIANTS
  ScreenShowsTail
  NumbersRight
  SerialInOrder
\* The bounded number of calls has been made.
CHECK_DEADLOCK FALSE
