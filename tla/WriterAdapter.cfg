SPECIFICATION LiveSpec
CONSTANTS
  Streams <- MCStreams
  MaxFile = 4
  OutputLen = 2
INVARIANTS
  SinkIsPrefix
  AnswersWhatItTook
PROPERTIES
  CallsReturn
