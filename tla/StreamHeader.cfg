SPECIFICATION Spec
CONSTANTS
  Nibbles = {0, 1, 15}
  Bytes = {0, 1, 255}
  Offsets = {0, 3}
  MaxBlocks = 1
CONSTRAINT OnePartAtATime
INVARIANTS
  FieldsAsSaid
  WindowAsPeeked
\* The stream ends, or is found to be invalid.
CHECK_DEADLOCK FALSE
