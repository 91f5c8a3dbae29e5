CONSTANTS
  Sizes <- MCSizes
  Marks <- MCMarks
  MaxBuffers = 4
SPECIFICATION Spec
INVARIANTS
  TypeOK
  LayoutOrdered
  FormatFresh
  BuffersAccounted
  BitmapCountsRight
PROPERTY NeverMarksUsed
