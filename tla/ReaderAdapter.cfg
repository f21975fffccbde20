SPECIFICATION LiveSpec
CONSTANTS
  Streams <- MCStreams
  MaxFile = 6
  BufferLen = 3
  MoveMargin = 2
  BufLens = {0, 1, 2}
INVARIANTS
  BufferedIsNext
  NoByteVanishes
  ZeroIsTheEnd
PROPERTIES
  EndIsReached
