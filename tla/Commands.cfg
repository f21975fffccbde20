SPECIFICATION Spec
CONSTANTS
  ShortCodes = {0, 1, 2, 3, 4, 5, 6, 7, 8, 9, 10, 11, 12, 13, 14, 15}
  Distances = {1, 5}
  Contexts = {0, 2}
  InsertLengths = {0, 2}
  TypeCounts = {1, 2}
  LengthOffsets <- MCLengthOffsets
  LengthBits = {0}
  NoSwitch = 20
  MaxCommands = 3
  MaxBlocks = 1
CONSTRAINT OneThingAtATime
INVARIANTS
  CountersExact
  TypesAreLastTwo
  CodeIsCurrent
  NothingHalfRead
PROPERTIES
  ImplementsDistanceHistory
\* The decoder stops at an error, and at the bounds on commands and blocks.
CHECK_DEADLOCK FALSE
