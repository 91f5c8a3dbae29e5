CONSTANTS
  Present <- MCPresent
  Drives <- MCDrives
  Capacity = 5
  CountMod = 3
  LbaLimit = 5
  LbaWrap = 4
  Lbas <- MCLbas
  ReadCounts <- MCReadCounts
  WriteCounts <- MCWriteCounts
  MaxCalls = 2
SPECIFICATION Spec
INVARIANT WrittenWhenReported
\* Two calls are made, then nothing happens.
CHECK_DEADLOCK FALSE
