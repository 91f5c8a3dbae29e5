\* The region starts at 28 (rounded up to 32) and ends at 149.
CONSTANTS
  RegionBase = 28
  RegionSize = 121
  SizeMod = 256
  Requests <- MCRequests
SPECIFICATION ListSpec
INVARIANTS
  TypeOK
  ListSound
  BlocksDisjoint
  NothingLost
  FullyCoalesced
  HeadersAligned
PROPERTIES
  ImplementsHeap
  ImplementsAllocator
