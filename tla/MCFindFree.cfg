\* Drives of up to six sectors, five of which can be addressed.
CONSTANTS
  MaxSize = 6
  LbaLimit = 5
  LbaWrap = 2
  UINT32_MAX = 99
SPECIFICATION FindSpec
INVARIANTS
  AnswerIsFree
  NoneOnlyIfFull
\* The function has returned.
CHECK_DEADLOCK FALSE
