SPECIFICATION Spec
CONSTANTS
  MaxCodeLength = 5
  RootBits = 3
  ReverseBits = 3
  MaxCodeLengthCodeLength = 3
  kCodeLengthCodeOrder <- Order
  kDefaultCodeLength = 3
  RepeatBits = 1
  ZeroBits = 1
  MaxAlphabet = 6
  SpaceModulus = 2097152
  kLiteralContextBits = 2
  kDistanceContextBits = 1
  MtfSize = 4
  MaxTableSize = 16
  Alphabets <- ThreeAlphabets
  MaxSymbols <- ThreeMaxima
  MaxRun = 2
  MaxTypes = 3
CONSTRAINT Small
INVARIANTS
  LengthsAsSaid
  TreesDecode
  ReadersAgree
  MapAsSaid
CHECK_DEADLOCK FALSE
