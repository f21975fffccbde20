SPECIFICATION LiveSpec
CONSTANTS
  Streams <- MCStreams
  MaxFile = 6
  InputLen = 3
  OutputLen = 2
INVARIANTS
  SinkIsPrefix
PROPERTIES
  LoopEnds
\* The copy ends.
CHECK_DEADLOCK FALSE
