SPECIFICATION FairSpec
CONSTANTS
  ByteBits = 2
  RegBytes = 8
  Demands <- MCDemands
  CopyLengths = {2}
  Pieces = {0, 1, 3, 17}
  FastBytes = 16
  MaxBits = 24
INVARIANTS
  BitsInOrder
  BufferHasRoom
  AsksOnlyWhenShort
PROPERTIES
  ImplementsInputStream
  Completes
