SPECIFICATION FairSpec
CONSTANTS
  WindowSize = 8
  Gap = 2
  Chunk = 2
  MinRing = 4
  Slack = 3
  DictSize = 0
  Canny = TRUE
  BlockLengths = {2, 6}
  InsertLengths = {0, 2}
  CopyLengths = {2, 3, 5}
  WordLengths = {1, 3}
  StreamRoom = {0, 1, 6}
  TakeSizes = {}
  MaxDeclared = 12
  NoByte = NoByte
INVARIANTS
  WindowIntact
  PositionsInRange
  OutputMatchesHeaders
  OutputQueriesExact
PROPERTIES
  ImplementsOutputStream
  Completes
