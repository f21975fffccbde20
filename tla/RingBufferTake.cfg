SPECIFICATION Spec
CONSTANTS
  WindowSize = 16
  Gap = 2
  Chunk = 2
  MinRing = 4
  Slack = 3
  DictSize = 3
  Canny = TRUE
  BlockLengths = {2, 6}
  InsertLengths = {0, 2}
  CopyLengths = {2, 3, 5}
  WordLengths = {1, 3}
  StreamRoom = {0}
  TakeSizes = {0}
  MaxDeclared = 18
  NoByte = NoByte
PROPERTIES
  ImplementsOutputStream
