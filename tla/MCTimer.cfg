CONSTANTS
  Word = 4
  UintMod = 65536
  Starts <- MCStarts
  Requests <- MCRequests
SPECIFICATION Spec
INVARIANT ShortByAtMostATick
PROPERTY WaitReturns
\* The wait is over.
CHECK_DEADLOCK FALSE
